---------------------------- MODULE Spec2Model ----------------------------
(***************************************************************************)
(* Behavioural-inference pipeline of BlackBox: the Docker sandbox          *)
(* executor (dockerService.executeInSandbox), the error recovery layer     *)
(* (errorRecoveryService.withRecovery), the hypothesis engine, the         *)
(* adaptive test generator and the two pipelines of pipelineService        *)
(* (runAnalysisPipeline, runEnhancedPipeline).                             *)
(*                                                                         *)
(* Texts are modelled by their tokens: an input text is a sequence of      *)
(* lines, each a sequence of integers, plus a flag for a trailing newline; *)
(* an output text is the numbers it prints plus the status of a trailing   *)
(* "[EXIT:status]" marker (0 when the text carries no marker).             *)
(* An error is modelled by the set of keywords its message contains.       *)
(* A confidence is a rational <<numerator, denominator>>.                  *)
(***************************************************************************)
EXTENDS Integers, Sequences, FiniteSets, TLC

\* ------------------------------------------------------------------ bounds
MaxTests == 1
MaxLlmTests == 1
MaxFaults == 1
MaxObs == 3

\* ------------------------------------------------------- program constants
DockerTimeout == 30000
TimerSlack == 2000
EchoStatus == 0
TimeoutKillStatus == 124
MockExtra == 5
MockBasicCount == 10
MergedLimit == 25
TopLimit == 5
AdaptiveLimit == 10
DiscriminatingLimit == 5
CategoryLimit == 3

\* ---------------------------------------------------------------- helpers
RECURSIVE Flatten(_)
Flatten(ls) == IF ls = <<>> THEN <<>> ELSE Head(ls) \o Flatten(Tail(ls))

RECURSIVE MaxSeq(_)
MaxSeq(s) ==
  IF Len(s) = 1 THEN s[1]
  ELSE LET m == MaxSeq(Tail(s)) IN IF Head(s) > m THEN Head(s) ELSE m

RECURSIVE MinSeq(_)
MinSeq(s) ==
  IF Len(s) = 1 THEN s[1]
  ELSE LET m == MinSeq(Tail(s)) IN IF Head(s) < m THEN Head(s) ELSE m

Min2(a, b) == IF a < b THEN a ELSE b

Take(s, n) == SubSeq(s, 1, Min2(n, Len(s)))

Text(ls, nl) == [lines |-> ls, nl |-> nl]

\* tc.input.trim().replace(/\s+/g, ' '): the tokens of the text, in order
NormalizeInput(input) == Flatten(input.lines)


\* ------------------------------------------------------------ test inputs
\* An LLM test case whose JSON object carries no "input" string
Undefined == [undefined |-> TRUE]

In_1_42 == Text(<< <<1>>, <<42>> >>, FALSE)
In_3_115 == Text(<< <<3>>, <<1, 1, 5>> >>, TRUE)
In_4_neg == Text(<< <<4>>, <<-1, -2, -3, -4>> >>, FALSE)

\* The inputs the reasoning service's test cases are drawn from: it may answer with any
\* text, here '1\n42', '5\n1 2 3 4 5' and '4\n-1 -2 -3 -4'
TestPool == {In_1_42, Text(<< <<5>>, <<1, 2, 3, 4, 5>> >>, FALSE), In_4_neg}

\* Inputs of the canned cases of testCaseStrategies: '1\n1\n' (identity),
\* '5\n1 2 3 4 5\n' and '5\n-1 -2 -3 -4 -5\n' (signs)
StrategyPool ==
  { Text(<< <<1>>, <<1>> >>, TRUE),
    Text(<< <<5>>, <<1, 2, 3, 4, 5>> >>, TRUE),
    Text(<< <<5>>, <<-1, -2, -3, -4, -5>> >>, TRUE) }

RECURSIVE SeqsUpTo(_, _)
SeqsUpTo(S, n) ==
  IF n = 0 THEN {<<>>}
  ELSE LET shorter == SeqsUpTo(S, n - 1)
       IN shorter \cup {Append(s, x) : s \in {t \in shorter : Len(t) = n - 1}, x \in S}

\* ------------------------------------------------- the program under test
\* A deterministic black box: it reads n and n numbers and prints fn of
\* them, except on the inputs of class bad, where it does how: exit with status 1,
\* loop until timeout(1) ends it, or hang (a loop that timeout(1)'s signal does not
\* end, so that the container never exits by itself).
Programs ==
  [fn : {"sum", "max"}, bad : {"none"}, how : {"exit1"}]
  \cup [fn : {"sum"}, bad : {"neg"}, how : {"exit1", "loop", "hang"}]

HasNegative(input) == \E k \in 1..Len(Flatten(input.lines)) : Flatten(input.lines)[k] < 0

ProgramArgs(input) == Tail(Flatten(input.lines))

ProgramBehaviour(prog, input) ==
  IF prog.bad = "all" \/ (prog.bad = "neg" /\ HasNegative(input))
  THEN prog.how
  ELSE "exit0"

\* A printed number is kept as <<hi, lo>> with value hi * 10^6 + lo and
\* 0 <= lo < 10^6, so that sums of the large canned inputs stay representable.
Million == 1000000

Num(x) == <<x \div Million, x % Million>>

RECURSIVE SumHi(_)
SumHi(s) == IF s = <<>> THEN 0 ELSE (Head(s) \div Million) + SumHi(Tail(s))

RECURSIVE SumLo(_)
SumLo(s) == IF s = <<>> THEN 0 ELSE (Head(s) % Million) + SumLo(Tail(s))

\* numbers.reduce((a, b) => a + b, 0), as a printed number
SumNum(s) == <<SumHi(s) + (SumLo(s) \div Million), SumLo(s) % Million>>

Out(nums, marker) == [nums |-> nums, marker |-> marker]

EmptyOut == Out(<<>>, 0)

ProgramStdout(prog, input) ==
  IF ProgramBehaviour(prog, input) # "exit0" THEN EmptyOut
  ELSE IF prog.fn = "sum" THEN Out(<<SumNum(ProgramArgs(input))>>, 0)
  ELSE Out(<<Num(MaxSeq(ProgramArgs(input)))>>, 0)

\* Exit status of `timeout Ns wine program.exe`: the program's own status,
\* or 124 when timeout(1) had to kill it
ProcessStatus(behaviour) ==
  CASE behaviour = "exit0" -> 0
    [] behaviour = "exit1" -> 1
    [] behaviour = "loop" -> TimeoutKillStatus

\* sh -c 'cd /sandbox && timeout Ns wine program.exe < input.txt 2>&1 || echo "[EXIT:$?]"'
\* The status of the list is the status of the last command run: the
\* program's when it is 0, echo's otherwise.
ShellStatus(procStatus) == IF procStatus = 0 THEN procStatus ELSE EchoStatus

ShellStdout(out, procStatus) ==
  IF procStatus = 0 THEN out ELSE Out(out.nums, procStatus)

\* `timeout ${Math.ceil(timeout / 1000)}s`: when timeout(1) kills the program (ms)
InnerKillAt(timeoutMs) == ((timeoutMs + 999) \div 1000) * 1000

\* setTimeout(..., timeout + 2000): when the orchestrator timer fires (ms)
TimerAt(timeoutMs) == timeoutMs + TimerSlack

\* When the container's command ends by itself (ms after start)
ExitAt(behaviour, timeoutMs) ==
  IF behaviour = "loop" THEN InnerKillAt(timeoutMs) ELSE 0

\* ---------------------------------------------------------- ExecutionResult
ExecutionResult(output, exitCode, timedOutFlag, error) ==
  [output |-> output, exitCode |-> exitCode, timedOut |-> timedOutFlag, error |-> error]

NoResult == [none |-> TRUE]

\* catch (error) { return { output: '', exitCode: -1, timedOut: false, error } }
DockerErrorResult == ExecutionResult(EmptyOut, -1, FALSE, "docker error")

\* fib of mockExecution
RECURSIVE MockFib(_)
MockFib(n) == IF n <= 2 THEN 1 ELSE MockFib(n - 1) + MockFib(n - 2)

mockExecution(input) ==
  IF Len(input.lines) >= 2
  THEN ExecutionResult(Out(<<SumNum(input.lines[2])>>, 0), 0, FALSE, "none")
  ELSE ExecutionResult(Out(<<Num(MockFib(input.lines[1][1]))>>, 0), 0, FALSE, "none")


\* ------------------------------------------------------------------ state
VARIABLES
  pipeline,          \* "basic" (runAnalysisPipeline) or "enhanced" (runEnhancedPipeline)
  useMock,           \* request.useMock
  program,           \* the executable of the request
  dockerUp,          \* whether the Docker daemon answers at all
  timeout,           \* config.docker.timeout (ms)
  jobId,             \* uuidv4() of the run, 0 before the run starts
  progressCallbacks, \* the job ids a progress callback is registered for
  delivered,         \* the stages handed to a registered callback
  pc,                \* position of the run
  stageLog,          \* the stage values emitted so far, in order
  testCases,         \* the initial batch
  adaptiveTests,     \* the adaptive batch
  phase,             \* which batch the execution loop runs: "initial" or "adaptive"
  idx,               \* the loop index i (1-based)
  observations,
  successfulTests,
  failedTests,
  topHypotheses,
  inference,
  fallbackUsed,
  attempt,           \* withRecovery: the attempt number
  lastError,         \* withRecovery: the error of the last attempt
  thrown,            \* the error the pipeline's try block threw
  result,            \* the value the run returned
  sbPc,              \* position inside executeInSandbox
  container,         \* the local variable: "null" or "ref"
  containerState,    \* Docker's view of that container
  timedOut,          \* the local flag the timer sets
  timerFired,
  waitStatus,        \* result.StatusCode of the race
  raceAt,            \* ms after start at which the race settled
  sbResult,          \* the value executeInSandbox returns
  leftBehind,        \* containers still existing after their call returned
  faults,            \* infrastructure faults injected so far
  execLog,           \* history: one entry per resolved test
  obsLog,            \* history: the execLog index each observation came from
  counters,          \* history: calls made, by name
  recovery,          \* a call of withRecovery made on its own: its locals and history
  engine,            \* a call of the hypothesis engine made on its own
  constraints,       \* a call of parseConstraints and of the boundary strategy
  websocket,         \* the WebSocket service: its clients map and what it sent
  callback           \* the stages on which the registered progress callback throws

sbVars == <<sbPc, container, containerState, timedOut, timerFired, waitStatus, raceAt,
            sbResult, leftBehind, faults>>

reqVars == <<pipeline, useMock, program, dockerUp, timeout>>

cbVars == <<progressCallbacks, delivered>>

loopVars == <<phase, idx, observations, successfulTests, failedTests, execLog, obsLog>>

llmVars == <<attempt, lastError>>

unitVars == <<recovery, engine, constraints, websocket, callback>>

vars == <<pipeline, useMock, program, dockerUp, timeout, jobId, progressCallbacks,
          delivered, pc, stageLog, testCases, adaptiveTests, phase, idx, observations,
          successfulTests, failedTests, topHypotheses, inference, fallbackUsed, attempt,
          lastError, thrown, result, sbPc, container, containerState, timedOut,
          timerFired, waitStatus, raceAt, sbResult, leftBehind, faults, execLog, obsLog,
          counters, recovery, engine, constraints, websocket, callback>>


\* ------------------------------------------------------------- test cases
TestCase(input, category) == [input |-> input, category |-> category]

CurrentBatch == IF phase = "initial" THEN testCases ELSE adaptiveTests

CurrentInput == CurrentBatch[idx].input

Count(name) == counters[name]

Bump(name) == [counters EXCEPT ![name] = @ + 1]

\* ------------------------------------------------------- executeInSandbox
CanFault == faults < MaxFaults

SandboxIdle ==
  /\ sbPc = "idle" /\ container = "null" /\ containerState = "none"
  /\ timedOut = FALSE /\ timerFired = FALSE /\ waitStatus = 0 /\ raceAt = 0
  /\ sbResult = NoResult

\* catch (error) { ...; return { output: '', stderr: '', exitCode: -1, timedOut: false, error } }
SbCatch ==
  /\ sbResult' = DockerErrorResult
  /\ sbPc' = "finally"

\* await fs.writeFile(inputPath, input)
SbWriteInput ==
  /\ sbPc = "write"
  /\ \/ /\ sbPc' = "create"
        /\ UNCHANGED <<sbResult, faults>>
     \/ /\ CanFault
        /\ faults' = faults + 1
        /\ SbCatch
  /\ UNCHANGED <<container, containerState, timedOut, timerFired, waitStatus, raceAt,
                 leftBehind>>
  /\ UNCHANGED <<reqVars, unitVars, cbVars, loopVars, llmVars, jobId, pc, stageLog, testCases,
                 adaptiveTests, topHypotheses, inference, fallbackUsed, thrown, result,
                 counters>>

\* container = await docker.createContainer({...})
SbCreateContainer ==
  /\ sbPc = "create"
  /\ \/ /\ dockerUp
        /\ container' = "ref"
        /\ containerState' = "created"
        /\ sbPc' = "start"
        /\ UNCHANGED <<sbResult, faults>>
     \/ /\ ~dockerUp
        /\ SbCatch
        /\ UNCHANGED <<container, containerState, faults>>
     \/ /\ dockerUp /\ CanFault
        /\ faults' = faults + 1
        /\ SbCatch
        /\ UNCHANGED <<container, containerState>>
  /\ UNCHANGED <<timedOut, timerFired, waitStatus, raceAt, leftBehind>>
  /\ UNCHANGED <<reqVars, unitVars, cbVars, loopVars, llmVars, jobId, pc, stageLog, testCases,
                 adaptiveTests, topHypotheses, inference, fallbackUsed, thrown, result,
                 counters>>

\* await container.start()
SbStart ==
  /\ sbPc = "start"
  /\ \/ /\ containerState' = "running"
        /\ sbPc' = "wait"
        /\ UNCHANGED <<sbResult, faults>>
     \/ /\ CanFault
        /\ faults' = faults + 1
        /\ SbCatch
        /\ UNCHANGED containerState
  /\ UNCHANGED <<container, timedOut, timerFired, waitStatus, raceAt, leftBehind>>
  /\ UNCHANGED <<reqVars, unitVars, cbVars, loopVars, llmVars, jobId, pc, stageLog, testCases,
                 adaptiveTests, topHypotheses, inference, fallbackUsed, thrown, result,
                 counters>>

\* const result = await Promise.race([waitPromise, timeoutPromise]): waitPromise settles
SbWait ==
  /\ sbPc = "wait"
  /\ LET b == ProgramBehaviour(program, CurrentInput) IN
     \/ /\ ~timerFired
        /\ b # "hang"
        /\ ExitAt(b, timeout) < TimerAt(timeout)
        /\ waitStatus' = ShellStatus(ProcessStatus(b))
        /\ raceAt' = ExitAt(b, timeout)
        /\ containerState' = "exited"
        /\ sbPc' = "logs"
        /\ UNCHANGED <<sbResult, faults>>
     \/ /\ CanFault
        /\ faults' = faults + 1
        /\ SbCatch
        /\ UNCHANGED <<waitStatus, raceAt, containerState>>
  /\ UNCHANGED <<container, timedOut, timerFired, leftBehind>>
  /\ UNCHANGED <<reqVars, unitVars, cbVars, loopVars, llmVars, jobId, pc, stageLog, testCases,
                 adaptiveTests, topHypotheses, inference, fallbackUsed, thrown, result,
                 counters>>

\* setTimeout(() => { timedOut = true; resolve({ StatusCode: -1 }) }, timeout + 2000)
\* The timer is never cleared: it wins the race when wait() does not settle, and it
\* still sets the flag when it fires after the race, before the return statement
\* (container.logs() taking that long is an infrastructure fault).
SbTimerFires ==
  /\ ~timerFired
  /\ timerFired' = TRUE
  /\ timedOut' = TRUE
  /\ \/ /\ sbPc = "wait"
        /\ ProgramBehaviour(program, CurrentInput) = "hang"
        /\ waitStatus' = -1
        /\ raceAt' = TimerAt(timeout)
        /\ sbPc' = "logs"
        /\ UNCHANGED faults
     \/ /\ sbPc = "logs"
        /\ CanFault
        /\ faults' = faults + 1
        /\ UNCHANGED <<waitStatus, raceAt, sbPc>>
  /\ UNCHANGED <<container, containerState, sbResult, leftBehind>>
  /\ UNCHANGED <<reqVars, unitVars, cbVars, loopVars, llmVars, jobId, pc, stageLog, testCases,
                 adaptiveTests, topHypotheses, inference, fallbackUsed, thrown, result,
                 counters>>

\* What container.logs() holds: the command's whole output once it ended,
\* the program's own output so far while it still runs
ContainerLogs ==
  LET b == ProgramBehaviour(program, CurrentInput) IN
  IF containerState = "exited"
  THEN ShellStdout(ProgramStdout(program, CurrentInput), ProcessStatus(b))
  ELSE ProgramStdout(program, CurrentInput)

\* return { output: stdout.trim(), stderr, exitCode: result.StatusCode, timedOut, executionTime }
SandboxReturn(stdout, statusCode, timedOutFlag) ==
  ExecutionResult(stdout, statusCode, timedOutFlag, "none")

\* const logs = await container.logs(...); ...; return {...}
SbLogs ==
  /\ sbPc = "logs"
  /\ \/ /\ sbResult' = SandboxReturn(ContainerLogs, waitStatus, timedOut)
        /\ sbPc' = "finally"
        /\ UNCHANGED faults
     \/ /\ CanFault
        /\ faults' = faults + 1
        /\ SbCatch
  /\ UNCHANGED <<container, containerState, timedOut, timerFired, waitStatus, raceAt,
                 leftBehind>>
  /\ UNCHANGED <<reqVars, unitVars, cbVars, loopVars, llmVars, jobId, pc, stageLog, testCases,
                 adaptiveTests, topHypotheses, inference, fallbackUsed, thrown, result,
                 counters>>

\* finally { if (container) { try { await container.stop({ t: 0 }).catch(() => {}); ...
SbStop ==
  /\ sbPc = "finally"
  /\ IF container = "null"
     THEN /\ sbPc' = "returned"
          /\ UNCHANGED <<containerState, faults>>
     ELSE /\ sbPc' = "remove"
          /\ \/ /\ containerState' = "stopped"
                /\ UNCHANGED faults
             \/ /\ CanFault
                /\ faults' = faults + 1
                /\ UNCHANGED containerState
  /\ UNCHANGED <<container, timedOut, timerFired, waitStatus, raceAt, sbResult, leftBehind>>
  /\ UNCHANGED <<reqVars, unitVars, cbVars, loopVars, llmVars, jobId, pc, stageLog, testCases,
                 adaptiveTests, topHypotheses, inference, fallbackUsed, thrown, result,
                 counters>>

\* ... await container.remove({ force: true, v: true }) } catch (cleanupError) { logger.warn } } }
SbRemove ==
  /\ sbPc = "remove"
  /\ sbPc' = "returned"
  /\ \/ /\ containerState' = "removed"
        /\ UNCHANGED <<faults, leftBehind>>
     \/ /\ CanFault
        /\ faults' = faults + 1
        /\ leftBehind' = leftBehind + 1
        /\ UNCHANGED containerState
  /\ UNCHANGED <<container, timedOut, timerFired, waitStatus, raceAt, sbResult>>
  /\ UNCHANGED <<reqVars, unitVars, cbVars, loopVars, llmVars, jobId, pc, stageLog, testCases,
                 adaptiveTests, topHypotheses, inference, fallbackUsed, thrown, result,
                 counters>>


\* -------------------------------------------------------- hypothesisEngine
extractNumbersKeepingSize(input) == Flatten(input.lines)

\* input.match(/-?\d+/g), with the first number dropped when it equals the
\* count of the numbers after it
extractNumbers(input) ==
  LET matches == Flatten(input.lines) IN
  IF Len(matches) <= 1 THEN matches
  ELSE IF matches[1] = Len(matches) - 1 THEN Tail(matches)
  ELSE matches

\* expected.toString() === output.trim()
OutputIs(output, expectedNum) == output.marker = 0 /\ output.nums = <<expectedNum>>

\* The library entries the model carries, in library order
hypothesisLibrary ==
  << [id |-> "sum", name |-> "Array Sum"],
     [id |-> "count", name |-> "Element Count"],
     [id |-> "max", name |-> "Maximum Element"],
     [id |-> "min", name |-> "Minimum Element"],
     [id |-> "first", name |-> "First Element"],
     [id |-> "last", name |-> "Last Element"] >>

\* h.validator(obs.input, obs.output).matches
validator(id, input, output) ==
  LET numbers == extractNumbers(input) IN
  CASE id = "sum" -> numbers # <<>> /\ OutputIs(output, SumNum(numbers))
    [] id = "count" -> OutputIs(output, Num(Len(numbers)))
    [] id = "max" -> numbers # <<>> /\ OutputIs(output, Num(MaxSeq(numbers)))
    [] id = "min" -> numbers # <<>> /\ OutputIs(output, Num(MinSeq(numbers)))
    [] id = "first" -> numbers # <<>> /\ OutputIs(output, Num(numbers[1]))
    [] id = "last" -> numbers # <<>> /\ OutputIs(output, Num(numbers[Len(numbers)]))

MatchCount(id, obs) ==
  Cardinality({k \in 1..Len(obs) : validator(id, obs[k].input, obs[k].output)})

ConfidenceSmoothed(matchCount, total) == <<matchCount + 1, total + 2>>

\* confidence = total > 0 ? matchCount / total : 0, as <<numerator, denominator>>
Confidence(matchCount, total) == IF total > 0 THEN <<matchCount, total>> ELSE <<0, 1>>

ConfGt(c, num, den) == c[1] * den > num * c[2]

ConfIsOne(c) == c[1] = c[2]

\* a - b < num / den
ConfGapLt(a, b, num, den) == (a[1] * b[2] - b[1] * a[2]) * den < num * a[2] * b[2]

Scored(h, obs) ==
  LET m == MatchCount(h.id, obs) IN
  [id |-> h.id, name |-> h.name, confidence |-> Confidence(m, Len(obs)),
   matchCount |-> m, mismatchCount |-> Len(obs) - m]

\* .filter((h) => h.confidence > 0.5)
Plausible(h) == ConfGt(h.confidence, 1, 2)

\* .sort((a, b) => b.confidence - a.confidence): stable, by descending confidence;
\* all confidences of one call share the denominator, so matchCount orders them
RECURSIVE SortByConfidence(_, _)
SortByConfidence(s, m) ==
  IF m < 0 THEN <<>>
  ELSE LET AtM(h) == h.matchCount = m
       IN SelectSeq(s, AtM) \o SortByConfidence(s, m - 1)

validateHypotheses(obs) ==
  LET scored == [k \in 1..Len(hypothesisLibrary) |-> Scored(hypothesisLibrary[k], obs)]
  IN SortByConfidence(SelectSeq(scored, Plausible), Len(obs))

getTopHypothesesUnlimited(obs) == validateHypotheses(obs)

getTopHypotheses(obs) ==
  LET validated == validateHypotheses(obs)
      Perfect(h) == ConfIsOne(h.confidence)
      perfectMatches == SelectSeq(validated, Perfect)
  IN IF perfectMatches # <<>> THEN Take(perfectMatches, TopLimit)
     ELSE Take(validated, TopLimit)


\* ------------------------------------------------------ adaptiveTestService
Null == [null |-> TRUE]

\* The characters of the hypothesis names
Chars(name) ==
  CASE name = "Array Sum" ->
         <<"A", "r", "r", "a", "y", " ", "S", "u", "m">>
    [] name = "Element Count" ->
         <<"E", "l", "e", "m", "e", "n", "t", " ", "C", "o", "u", "n", "t">>
    [] name = "Maximum Element" ->
         <<"M", "a", "x", "i", "m", "u", "m", " ", "E", "l", "e", "m", "e", "n", "t">>
    [] name = "Minimum Element" ->
         <<"M", "i", "n", "i", "m", "u", "m", " ", "E", "l", "e", "m", "e", "n", "t">>
    [] name = "First Element" ->
         <<"F", "i", "r", "s", "t", " ", "E", "l", "e", "m", "e", "n", "t">>
    [] name = "Last Element" ->
         <<"L", "a", "s", "t", " ", "E", "l", "e", "m", "e", "n", "t">>

ToLower ==
  ("A" :> "a") @@ ("B" :> "b") @@ ("C" :> "c") @@ ("D" :> "d") @@ ("E" :> "e") @@ ("F"
  :> "f") @@ ("G" :> "g") @@ ("H" :> "h") @@ ("I" :> "i") @@ ("J" :> "j") @@ ("K" :>
  "k") @@ ("L" :> "l") @@ ("M" :> "m") @@ ("N" :> "n") @@ ("O" :> "o") @@ ("P" :> "p")
  @@ ("Q" :> "q") @@ ("R" :> "r") @@ ("S" :> "s") @@ ("T" :> "t") @@ ("U" :> "u") @@
  ("V" :> "v") @@ ("W" :> "w") @@ ("X" :> "x") @@ ("Y" :> "y") @@ ("Z" :> "z")

LowerAlnum ==
  {"a", "b", "c", "d", "e", "f", "g", "h", "i", "j", "k", "l", "m", "n", "o", "p", "q",
   "r", "s", "t", "u", "v", "w", "x", "y", "z", "0", "1", "2", "3", "4", "5", "6", "7",
   "8", "9"}

LowerChar(c) == IF c \in DOMAIN ToLower THEN ToLower[c] ELSE c

\* drop every "_" that follows a "_": replace(/_+/g, '_')
RECURSIVE Collapse(_)
Collapse(s) ==
  IF Len(s) <= 1 THEN s
  ELSE IF s[1] = "_" /\ s[2] = "_" THEN Collapse(Tail(s))
  ELSE <<s[1]>> \o Collapse(Tail(s))

\* name.toLowerCase().replace(/[^a-z0-9]/g, '_').replace(/_+/g, '_')
normalize(nameChars) ==
  Collapse([k \in 1..Len(nameChars) |->
              IF LowerChar(nameChars[k]) \in LowerAlnum THEN LowerChar(nameChars[k])
              ELSE "_"])

\* hay.includes(needle)
Includes(hay, needle) ==
  \E k \in 0..(Len(hay) - Len(needle)) : SubSeq(hay, k + 1, k + Len(needle)) = needle

\* the lookup table of generateDiscriminatingTest, in insertion order
patterns ==
  << [key |-> <<"s", "u", "m", "_", "v", "s", "_", "m", "a", "x">>,
      test |-> TestCase(Text(<< <<3>>, <<1, 1, 5>> >>, TRUE), "discriminating")],
     [key |-> <<"s", "u", "m", "_", "v", "s", "_", "c", "o", "u", "n", "t">>,
      test |-> TestCase(Text(<< <<3>>, <<2, 3, 4>> >>, TRUE), "discriminating")],
     [key |-> <<"m", "a", "x", "_", "v", "s", "_", "m", "i", "n">>,
      test |-> TestCase(Text(<< <<3>>, <<1, 5, 3>> >>, TRUE), "discriminating")],
     [key |-> <<"m", "e", "d", "i", "a", "n", "_", "v", "s", "_", "m", "e", "a", "n">>,
      test |-> TestCase(Text(<< <<5>>, <<1, 2, 3, 4, 100>> >>, TRUE), "discriminating")],
     [key |-> <<"a", "v", "e", "r", "a", "g", "e", "_", "v", "s", "_", "s", "u", "m">>,
      test |-> TestCase(Text(<< <<3>>, <<3, 6, 9>> >>, TRUE), "discriminating")],
     [key |-> <<"p", "r", "o", "d", "u", "c", "t", "_", "v", "s", "_", "s", "u", "m">>,
      test |-> TestCase(Text(<< <<3>>, <<2, 2, 2>> >>, TRUE), "discriminating")],
     [key |-> <<"g", "c", "d", "_", "v", "s", "_", "m", "i", "n">>,
      test |-> TestCase(Text(<< <<3>>, <<6, 9, 12>> >>, TRUE), "discriminating")],
     [key |-> <<"l", "c", "m", "_", "v", "s", "_", "m", "a", "x">>,
      test |-> TestCase(Text(<< <<3>>, <<2, 3, 4>> >>, TRUE), "discriminating")],
     [key |-> <<"r", "a", "n", "g", "e", "_", "v", "s", "_", "m", "a", "x">>,
      test |-> TestCase(Text(<< <<4>>, <<-5, 0, 5, 10>> >>, TRUE), "discriminating")],
     [key |-> <<"f", "i", "r", "s", "t", "_", "v", "s", "_", "l", "a", "s", "t">>,
      test |-> TestCase(Text(<< <<4>>, <<7, 8, 9, 10>> >>, TRUE), "discriminating")],
     [key |-> <<"c", "o", "u", "n", "t", "_", "p", "o", "s", "i", "t", "i", "v", "e", "_", "v", "s", "_", "c", "o", "u", "n", "t">>,
      test |-> TestCase(Text(<< <<5>>, <<-1, -2, 3, 4, 5>> >>, TRUE), "discriminating")] >>

VsChars == <<"_", "v", "s", "_">>

generateDiscriminatingTest(h1Name, h2Name) ==
  LET n1 == normalize(Chars(h1Name))
      n2 == normalize(Chars(h2Name))
      key1 == n1 \o VsChars \o n2
      key2 == n2 \o VsChars \o n1
      Both(e) == Includes(e.key, n1) /\ Includes(e.key, n2)
      IsKey1(e) == e.key = key1
      IsKey2(e) == e.key = key2
      byWords == SelectSeq(patterns, Both)
      byKey1 == SelectSeq(patterns, IsKey1)
      byKey2 == SelectSeq(patterns, IsKey2)
  IN IF byWords # <<>> THEN byWords[1].test
     ELSE IF byKey1 # <<>> THEN byKey1[1].test
     ELSE IF byKey2 # <<>> THEN byKey2[1].test
     ELSE Null

\* the pairs (i, j), i < j, in the order of the two nested loops
RECURSIVE PairsFrom(_, _, _)
PairsFrom(i, j, n) ==
  IF i >= n THEN <<>>
  ELSE IF j > n THEN PairsFrom(i + 1, i + 2, n)
  ELSE <<<<i, j>>>> \o PairsFrom(i, j + 1, n)

generateDiscriminatingTests(hypotheses) ==
  LET pairs == PairsFrom(1, 2, Len(hypotheses))
      tests == [k \in 1..Len(pairs) |->
                  generateDiscriminatingTest(hypotheses[pairs[k][1]].name,
                                             hypotheses[pairs[k][2]].name)]
      NotNull(t) == t # Null
  IN Take(SelectSeq(tests, NotNull), DiscriminatingLimit)

\* extractNumbers of adaptiveTestService: every number of the text
allNumbers(input) == Flatten(input.lines)

isSorted(arr) ==
  \/ Len(arr) <= 1
  \/ \A k \in 2..Len(arr) : arr[k - 1] <= arr[k]
  \/ \A k \in 2..Len(arr) : arr[k - 1] >= arr[k]

Abs(x) == IF x < 0 THEN -x ELSE x

\* obs.input.includes('-')
InputHasMinus(input) == \E k \in 1..Len(allNumbers(input)) : allNumbers(input)[k] < 0

\* /\d{7,}/.test(obs.input)
InputHasLarge(input) == \E k \in 1..Len(allNumbers(input)) : Abs(allNumbers(input)[k]) >= Million

\* obs.input.startsWith('1\n')
InputStartsSingle(input) ==
  /\ input.lines # <<>>
  /\ input.lines[1] = <<1>>
  /\ (Len(input.lines) >= 2 \/ input.nl)

\* obs.input.includes(' 0 ') || obs.input.includes('\n0\n')
InputHasZero(input) ==
  \/ \E l \in 1..Len(input.lines) :
       \E k \in 2..(Len(input.lines[l]) - 1) : input.lines[l][k] = 0
  \/ \E l \in 2..Len(input.lines) :
       input.lines[l] = <<0>> /\ (l < Len(input.lines) \/ input.nl)

InputSorted(input) == isSorted(allNumbers(input))

InputHasDuplicates(input) ==
  Cardinality({allNumbers(input)[k] : k \in 1..Len(allNumbers(input))})
    < Len(allNumbers(input))

\* observations.map((obs) => obs.input)
InputsOf(obs) == {obs[k].input : k \in 1..Len(obs)}

suggestNextTestCategories(obs) ==
  (IF \E i \in InputsOf(obs) : InputHasMinus(i) THEN <<>> ELSE <<"negative_values">>)
  \o (IF \E i \in InputsOf(obs) : InputHasLarge(i) THEN <<>> ELSE <<"large_values">>)
  \o (IF \E i \in InputsOf(obs) : InputStartsSingle(i) THEN <<>> ELSE <<"minimal_cases">>)
  \o (IF \E i \in InputsOf(obs) : InputHasZero(i) THEN <<>> ELSE <<"zero_cases">>)
  \o (IF \E i \in InputsOf(obs) : InputSorted(i) THEN <<>> ELSE <<"sorted_inputs">>)
  \o (IF \E i \in InputsOf(obs) : InputHasDuplicates(i) THEN <<>> ELSE <<"duplicate_elements">>)

generateCategoryTests(category) ==
  CASE category = "negative_values" ->
         << TestCase(Text(<< <<5>>, <<-1, -2, -3, -4, -5>> >>, TRUE), "negative_values"),
            TestCase(Text(<< <<6>>, <<-3, -1, 0, 1, 2, 3>> >>, TRUE), "negative_values") >>
    [] category = "large_values" ->
         << TestCase(Text(<< <<3>>, <<1000000000, 1000000000, 1000000000>> >>, TRUE), "large_values"),
            TestCase(Text(<< <<2>>, <<-2000000000, 2000000000>> >>, TRUE), "large_values") >>
    [] category = "minimal_cases" ->
         << TestCase(Text(<< <<1>>, <<42>> >>, TRUE), "minimal_cases"),
            TestCase(Text(<< <<2>>, <<1, 2>> >>, TRUE), "minimal_cases") >>
    [] category = "zero_cases" ->
         << TestCase(Text(<< <<5>>, <<0, 0, 0, 0, 0>> >>, TRUE), "zero_cases"),
            TestCase(Text(<< <<3>>, <<0, 1, 0>> >>, TRUE), "zero_cases") >>
    [] category = "sorted_inputs" ->
         << TestCase(Text(<< <<5>>, <<1, 2, 3, 4, 5>> >>, TRUE), "sorted_inputs"),
            TestCase(Text(<< <<5>>, <<5, 4, 3, 2, 1>> >>, TRUE), "sorted_inputs") >>
    [] category = "duplicate_elements" ->
         << TestCase(Text(<< <<5>>, <<7, 7, 7, 7, 7>> >>, TRUE), "duplicate_elements"),
            TestCase(Text(<< <<6>>, <<1, 1, 2, 2, 3, 3>> >>, TRUE), "duplicate_elements") >>
    [] OTHER -> <<>>

RECURSIVE ConcatAll(_)
ConcatAll(ss) == IF ss = <<>> THEN <<>> ELSE Head(ss) \o ConcatAll(Tail(ss))

\* const uniqueTests = new Map(); for (tc of all) if (!has(key)) set(key, tc)
RECURSIVE DedupByInput(_, _)
DedupByInput(tests, seen) ==
  IF tests = <<>> THEN <<>>
  ELSE LET key == NormalizeInput(Head(tests).input) IN
       IF key \in seen THEN DedupByInput(Tail(tests), seen)
       ELSE <<Head(tests)>> \o DedupByInput(Tail(tests), seen \cup {key})

generateAdaptiveTests(obs, hypotheses) ==
  LET Close(h) == /\ ConfGt(h.confidence, 1, 2)
                  /\ ConfGapLt(hypotheses[1].confidence, h.confidence, 3, 10)
      closeHypotheses == IF Len(hypotheses) > 1 THEN SelectSeq(hypotheses, Close) ELSE <<>>
      discriminating == IF Len(closeHypotheses) > 1
                        THEN generateDiscriminatingTests(closeHypotheses)
                        ELSE <<>>
      suggestions == Take(suggestNextTestCategories(obs), CategoryLimit)
      categoryTests == ConcatAll([k \in 1..Len(suggestions) |->
                                    generateCategoryTests(suggestions[k])])
  IN Take(DedupByInput(discriminating \o categoryTests, {}), AdaptiveLimit)


\* ----------------------------------------------------- errorRecoveryService
\* An error is the set of keywords its lower-cased message contains.
ErrNoSuccess == {"execution"}      \* 'No successful test executions. Cannot infer problem.'
ErrTypeError == {}                 \* "Cannot read properties of undefined (reading 'includes')"

\* The failures a call of the reasoning service can end with
LlmErrors ==
  { {"timeout", "gemini"}, {"429"}, {"memory"}, {"network"}, {"parse", "json"}, {} }

classifyErrorDockerFirst(error) ==
  IF "timeout" \in error /\ "docker" \in error THEN "docker_timeout"
  ELSE IF "timeout" \in error /\ ("llm" \in error \/ "gemini" \in error) THEN "llm_timeout"
  ELSE IF "rate limit" \in error \/ "429" \in error \/ "quota" \in error THEN "llm_rate_limit"
  ELSE IF "invalid" \in error /\ ("json" \in error \/ "response" \in error)
    THEN "llm_invalid_response"
  ELSE IF "memory" \in error \/ "oom" \in error THEN "docker_memory"
  ELSE IF "network" \in error \/ "connection" \in error THEN "docker_network"
  ELSE IF "execution" \in error \/ "exit code" \in error THEN "execution_failed"
  ELSE IF "parse" \in error THEN "parse_error"
  ELSE "unknown"

classifyError(error) ==
  IF "timeout" \in error /\ ("llm" \in error \/ "gemini" \in error) THEN "llm_timeout"
  ELSE IF "rate limit" \in error \/ "429" \in error \/ "quota" \in error THEN "llm_rate_limit"
  ELSE IF "invalid" \in error /\ ("json" \in error \/ "response" \in error)
    THEN "llm_invalid_response"
  ELSE IF "timeout" \in error /\ "docker" \in error THEN "docker_timeout"
  ELSE IF "memory" \in error \/ "oom" \in error THEN "docker_memory"
  ELSE IF "network" \in error \/ "connection" \in error THEN "docker_network"
  ELSE IF "execution" \in error \/ "exit code" \in error THEN "execution_failed"
  ELSE IF "parse" \in error THEN "parse_error"
  ELSE "unknown"

Strategy(maxRetries, backoffMs) == [maxRetries |-> maxRetries, backoffMs |-> backoffMs]

recoveryStrategies ==
  [t \in {"llm_timeout", "llm_rate_limit", "llm_invalid_response", "docker_timeout",
          "docker_memory", "execution_failed", "parse_error", "unknown"} |->
     CASE t = "llm_timeout" -> Strategy(3, 2000)
       [] t = "llm_rate_limit" -> Strategy(3, 5000)
       [] t = "llm_invalid_response" -> Strategy(2, 1000)
       [] t = "docker_timeout" -> Strategy(1, 0)
       [] t = "docker_memory" -> Strategy(0, 0)
       [] t = "execution_failed" -> Strategy(2, 500)
       [] t = "parse_error" -> Strategy(2, 500)
       [] t = "unknown" -> Strategy(1, 1000)]

\* recoveryStrategies.get(errorType) || { type: 'unknown', maxRetries: 1, backoffMs: 1000 }
StrategyOf(errorType) ==
  IF errorType \in DOMAIN recoveryStrategies THEN recoveryStrategies[errorType]
  ELSE Strategy(1, 1000)

\* if (actualType !== errorType) { if (!newStrategy || newStrategy.maxRetries === 0) throw }
AbortsAtOnce(actualType, errorType) ==
  /\ actualType # errorType
  /\ \/ actualType \notin DOMAIN recoveryStrategies
     \/ recoveryStrategies[actualType].maxRetries = 0

\* What withRecovery does after a failed attempt: "throw", or "retry" (next iteration)
AfterFailure(error, errorType, attemptNo) ==
  IF AbortsAtOnce(classifyError(error), errorType) THEN "throw"
  ELSE IF attemptNo < StrategyOf(errorType).maxRetries THEN "retry"
  ELSE "throw"

\* getErrorMessage(type, error): the fixed text of the kind, the raw message for unknown
getErrorMessage(type, error) ==
  IF type = "unknown" THEN [fixed |-> FALSE, kind |-> type, raw |-> error]
  ELSE [fixed |-> TRUE, kind |-> type, raw |-> {}]

\* error instanceof Error ? error.message : 'Unknown error' (runAnalysisPipeline)
RawMessage(error) == [fixed |-> FALSE, kind |-> "raw", raw |-> error]

\* ------------------------------------------------------------- inferences
\* A text of an inference is kept by the features the pipeline's checks read.
Statement(long, input, output) == [long |-> long, input |-> input, output |-> output]

Code(defined, long, placeholder) ==
  [defined |-> defined, long |-> long, placeholder |-> placeholder]

InferenceResult(title, statement, code, algorithmKnown, confidence) ==
  [problemTitle |-> title, problemStatement |-> statement, solutionCode |-> code,
   algorithmKnown |-> algorithmKnown, confidence |-> confidence]

NoInference == [none |-> TRUE]

\* sum !== output / max !== output over lines[1] of each observation with two lines
MockIsSum(obs) ==
  \A k \in 1..Len(obs) :
    Len(obs[k].input.lines) >= 2 =>
      /\ obs[k].output.nums # <<>>
      /\ obs[k].output.nums[1] = SumNum(obs[k].input.lines[2])

generateMockInference(obs) ==
  IF MockIsSum(obs)
  THEN InferenceResult("Array Sum", Statement(FALSE, FALSE, FALSE),
                       Code(TRUE, TRUE, FALSE), TRUE, <<95, 100>>)
  ELSE InferenceResult("Unknown Problem", Statement(FALSE, FALSE, FALSE),
                       Code(TRUE, FALSE, FALSE), TRUE, <<3, 10>>)

\* the names generateMockEnhancedInference has a canned result for
MockResultNames == {"Array Sum", "Maximum Element", "Minimum Element"}

generateMockEnhancedInference(obs, hypotheses) ==
  IF Len(hypotheses) > 0 /\ ConfGt(hypotheses[1].confidence, 9, 10)
  THEN InferenceResult(hypotheses[1].name, Statement(FALSE, FALSE, FALSE),
                       Code(TRUE, hypotheses[1].name \in MockResultNames, FALSE), TRUE,
                       hypotheses[1].confidence)
  ELSE generateMockInference(obs)

\* generateFallbackResult(observations) wrapped as 'Analysis Result (Partial)', confidence 0.5
PartialInference(obs) ==
  InferenceResult("Analysis Result (Partial)", Statement(TRUE, TRUE, TRUE),
                  Code(TRUE, TRUE, FALSE), TRUE, <<1, 2>>)

\* Variant of FallbackInference that leaves the solution out
FallbackWithoutSolution(obs, hypotheses) ==
  InferenceResult("Analysis Result (Partial)", Statement(TRUE, TRUE, TRUE),
                  Code(FALSE, FALSE, FALSE), TRUE, <<1, 2>>)

\* catch (error) { fallbackUsed = true; if (top.confidence > 0.8) mock else partial }
FallbackInference(obs, hypotheses) ==
  IF Len(hypotheses) > 0 /\ ConfGt(hypotheses[1].confidence, 8, 10)
  THEN generateMockEnhancedInference(obs, hypotheses)
  ELSE PartialInference(obs)

\* What inferProblemWithHypotheses / inferProblem may return: JSON.parse of the answer
LlmInferences ==
  { InferenceResult("Array Sum", Statement(FALSE, FALSE, FALSE), Code(TRUE, TRUE, FALSE),
                    TRUE, <<95, 100>>),
    InferenceResult("Some Problem", Statement(TRUE, TRUE, TRUE), Code(TRUE, TRUE, FALSE),
                    TRUE, <<9, 10>>),
    InferenceResult("No Code", Statement(TRUE, TRUE, TRUE), Code(FALSE, FALSE, FALSE),
                    TRUE, <<9, 10>>) }

\* analyzeResultQuality: result.solution.includes(...) throws on a missing solution
QualityThrows(inf) == ~inf.solutionCode.defined

analyzeResultQuality(inf, obs) ==
  LET score == 100
        - (IF ~inf.problemStatement.long THEN 20 ELSE 0)
        - (IF ~inf.problemStatement.input THEN 10 ELSE 0)
        - (IF ~inf.problemStatement.output THEN 10 ELSE 0)
        - (IF ~inf.solutionCode.long THEN 30 ELSE 0)
        - (IF inf.solutionCode.placeholder THEN 15 ELSE 0)
        - (IF ~inf.algorithmKnown THEN 15 ELSE 0)
        - (IF Len(obs) < 3 THEN 10 ELSE 0)
  IN IF score < 0 THEN 0 ELSE score


\* ------------------------------------------------------------ pipelineService
\* const jobId = uuidv4(): an id no caller has seen before the run hands it out
uuidv4 == 1

JobIds == {uuidv4, 2}

CounterNames == {"validate", "adaptive", "reasoning", "verify", "quality", "complete",
                 "catch"}

generateMockTestCases(count) ==
  Take(<< TestCase(Text(<< <<1>>, <<42>> >>, FALSE), "mock"),
          TestCase(Text(<< <<5>>, <<1, 2, 3, 4, 5>> >>, FALSE), "mock"),
          TestCase(Text(<< <<5>>, <<5, 4, 3, 2, 1>> >>, FALSE), "mock"),
          TestCase(Text(<< <<3>>, <<0, 0, 0>> >>, FALSE), "mock"),
          TestCase(Text(<< <<4>>, <<-1, -2, -3, -4>> >>, FALSE), "mock"),
          TestCase(Text(<< <<6>>, <<-3, -1, 0, 1, 2, 5>> >>, FALSE), "mock"),
          TestCase(Text(<< <<4>>, <<7, 7, 7, 7>> >>, FALSE), "mock"),
          TestCase(Text(<< <<5>>, <<1, -1, 1, -1, 1>> >>, FALSE), "mock"),
          TestCase(Text(<< <<3>>, <<1000000000, 1000000000, 1000000000>> >>, FALSE), "mock"),
          TestCase(Text(<< <<10>>, <<1, 2, 3, 4, 5, 6, 7, 8, 9, 10>> >>, FALSE), "mock") >>,
       count)

NoDuplicateInputs(tests) ==
  \A a, b \in 1..Len(tests) :
    a # b => NormalizeInput(tests[a].input) # NormalizeInput(tests[b].input)

\* The outputs generateComprehensiveTestSuite(inputFormat, constraints, 15) is drawn from
StrategySuites ==
  {t \in SeqsUpTo({TestCase(i, "strategy") : i \in StrategyPool}, MaxTests) :
     t # <<>> /\ NoDuplicateInputs(t)}

\* The answers the reasoning service may give to a request for test cases: the parsed
\* JSON array, in which an input may be missing
LlmSuites ==
  SeqsUpTo({TestCase(i, "llm") : i \in TestPool \cup {Undefined}}, MaxLlmTests) \ {<<>>}

HasUndefinedInput(tests) == \E k \in 1..Len(tests) : tests[k].input = Undefined

\* [...strategyTests, ...llmTests] deduplicated by normalized input, .slice(0, 25)
MergeTests(strategyTests, llmTests) ==
  Take(DedupByInput(strategyTests \o llmTests, {}), MergedLimit)

\* Variant of ExecOk that forgets the timedOut flag
ExecOkIgnoringTimedOut(r) == r.error = "none" /\ r.exitCode = 0

\* if (!result.error && !result.timedOut && result.exitCode === 0)
ExecOk(r) == r.error = "none" /\ ~r.timedOut /\ r.exitCode = 0

Observation(input, output) == [input |-> input, output |-> output]

\* Variant of NoObservations that never gives up
NoObservationsNever(obs) == FALSE

\* if (observations.length === 0)
NoObservations(obs) == Len(obs) = 0

\* Variant of NextIndex that skips a test
NextIndexSkipping(i) == i + 2

\* for (let i = 0; i < testCases.length; i++)
NextIndex(i) == i + 1

Threw == [threw |-> TRUE]

Stage(channel, stage) == [channel |-> channel, stage |-> stage]

\* emitProgress(jobId, { stage, ... }): hands the event to the callback registered for jobId
emitProgress(log, stage) == Append(log, Stage("progress", stage))

\* sendStageUpdate(jobId, stage, ...)
sendStageUpdate(log, stage) == Append(log, Stage("ws", stage))

Deliver(stage) ==
  IF jobId \in progressCallbacks THEN Append(delivered, stage) ELSE delivered

\* callback(progress) throws: a callback is registered for the run and throws on the stage
CallbackThrows(stage) == jobId \in progressCallbacks /\ stage \in callback

\* The error a throwing callback throws: a message with none of classifyError's keywords
ErrCallback == {}

\* The promise of the run rejects: the caller gets no result
Rejected == [rejected |-> TRUE]

\* No call of withRecovery or of the hypothesis engine outside a run
NoCall == [pc |-> "none", errorType |-> "unknown", attempt |-> 0, calls |-> 0,
           waits |-> <<>>, errors |-> <<>>, lastError |-> {}, value |-> 0]

NoEngine == [pc |-> "none", observations |-> <<>>, validated |-> <<>>, top |-> <<>>,
             hypotheses |-> <<>>, suggestions |-> <<>>, adaptive |-> <<>>,
             patterns |-> <<>>]

NoParse == [pc |-> "none", format |-> {}, text |-> <<>>, variables |-> <<>>,
            structuralHints |-> <<>>, cases |-> <<>>]

NoServer == [clients |-> <<>>, broadcasts |-> <<>>]

\* The state of the service before a run: nothing emitted, executed or observed
PipelineIdle ==
  /\ jobId = 0
  /\ progressCallbacks = {}
  /\ delivered = <<>>
  /\ pc = "idle"
  /\ stageLog = <<>>
  /\ testCases = <<>>
  /\ adaptiveTests = <<>>
  /\ phase = "initial"
  /\ idx = 1
  /\ observations = <<>>
  /\ successfulTests = 0
  /\ failedTests = 0
  /\ topHypotheses = <<>>
  /\ inference = NoInference
  /\ fallbackUsed = FALSE
  /\ attempt = 0
  /\ lastError = {}
  /\ thrown = {}
  /\ result = NoResult
  /\ SandboxIdle
  /\ leftBehind = 0
  /\ faults = 0
  /\ execLog = <<>>
  /\ obsLog = <<>>
  /\ counters = [n \in CounterNames |-> 0]

Init ==
  /\ pipeline \in {"basic", "enhanced"}
  /\ useMock \in BOOLEAN
  /\ program \in Programs
  /\ dockerUp \in BOOLEAN
  /\ timeout \in {1000, DockerTimeout}
  /\ (useMock \/ ~dockerUp) => program = [fn |-> "sum", bad |-> "none", how |-> "exit1"]
  /\ useMock => dockerUp
  /\ program.how \notin {"loop", "hang"} => timeout = DockerTimeout
  /\ PipelineIdle
  /\ recovery = NoCall
  /\ engine = NoEngine
  /\ constraints = NoParse
  /\ websocket = NoServer
  /\ callback = {}

\* onProgress(jobId, callback): a caller registers a callback for an id it knows; the id
\* of a run is a fresh uuid that the run hands out only with its result
OnProgress(id) ==
  /\ id \in JobIds
  /\ id # uuidv4 \/ pc = "done"
  /\ id \notin progressCallbacks
  /\ progressCallbacks' = progressCallbacks \cup {id}
  /\ UNCHANGED <<reqVars, unitVars, loopVars, llmVars, sbVars, jobId, delivered, pc, stageLog,
                 testCases, adaptiveTests, topHypotheses, inference, fallbackUsed, thrown,
                 result, counters>>

\* offProgress(jobId)
OffProgress(id) ==
  /\ id \in progressCallbacks
  /\ progressCallbacks' = progressCallbacks \ {id}
  /\ UNCHANGED <<reqVars, unitVars, loopVars, llmVars, sbVars, jobId, delivered, pc, stageLog,
                 testCases, adaptiveTests, topHypotheses, inference, fallbackUsed, thrown,
                 result, counters>>

\* const jobId = uuidv4(); ...; emitProgress(jobId, { stage: 'generating', progress: 0 })
StartRun ==
  /\ pc = "idle"
  /\ jobId' = uuidv4
  /\ delivered' = delivered
  /\ stageLog' = IF pipeline = "enhanced"
                 THEN emitProgress(sendStageUpdate(stageLog, "generating"), "generating")
                 ELSE emitProgress(stageLog, "generating")
  /\ pc' = "generate"
  /\ UNCHANGED <<reqVars, unitVars, loopVars, llmVars, sbVars, progressCallbacks, testCases,
                 adaptiveTests, topHypotheses, inference, fallbackUsed, thrown, result,
                 counters>>

\* Variant of EnterExecuting that announces the execution before the generated batch
EnterExecutingEarly(log) ==
  emitProgress(emitProgress(log, "executing"), "generating")

\* The events between the generated batch and the first execution:
\* generating (tests generated), then executing
EnterExecuting(log) ==
  IF pipeline = "enhanced"
  THEN emitProgress(sendStageUpdate(emitProgress(sendStageUpdate(log, "generating"),
                                                 "generating"), "executing"), "executing")
  ELSE emitProgress(emitProgress(log, "generating"), "executing")

\* Stage 1: strategy tests, plus the mock cases in mock mode; the reasoning service is
\* asked for more cases otherwise
GenerateTests ==
  /\ pc = "generate"
  /\ IF pipeline = "enhanced"
     THEN \E strategyTests \in StrategySuites :
            IF useMock
            THEN /\ testCases' = strategyTests \o generateMockTestCases(MockExtra)
                 /\ stageLog' = EnterExecuting(stageLog)
                 /\ delivered' = Deliver("executing")
                 /\ pc' = "exec"
            ELSE /\ testCases' = strategyTests
                 /\ pc' = "gen_llm"
                 /\ UNCHANGED <<stageLog, delivered>>
     ELSE IF useMock
          THEN /\ testCases' = generateMockTestCases(MockBasicCount)
               /\ stageLog' = EnterExecuting(stageLog)
               /\ delivered' = Deliver("executing")
               /\ pc' = "exec"
          ELSE /\ pc' = "gen_llm"
               /\ UNCHANGED <<testCases, stageLog, delivered>>
  /\ UNCHANGED <<reqVars, unitVars, loopVars, llmVars, sbVars, jobId, progressCallbacks,
                 adaptiveTests, topHypotheses, inference, fallbackUsed, thrown, result,
                 counters>>


\* One attempt of the reasoning service's test generation. runEnhancedPipeline makes it
\* through withRecovery(..., 'llm_timeout') and keeps the strategy tests when it gives up;
\* runAnalysisPipeline calls generateTestCases once and lets the failure reach its catch
LlmTestsAttempt ==
  /\ pc = "gen_llm"
  /\ \/ \E llmTests \in LlmSuites :
          /\ testCases' = IF pipeline = "basic" THEN llmTests
                          ELSE IF HasUndefinedInput(llmTests) THEN testCases
                          ELSE MergeTests(testCases, llmTests)
          /\ stageLog' = EnterExecuting(stageLog)
          /\ delivered' = Deliver("executing")
          /\ pc' = "exec"
          /\ attempt' = 0
          /\ lastError' = {}
          /\ UNCHANGED thrown
     \/ \E e \in LlmErrors :
          /\ IF pipeline = "basic"
             THEN /\ thrown' = e
                  /\ pc' = "catch"
                  /\ UNCHANGED <<attempt, lastError, stageLog, delivered>>
             ELSE IF AfterFailure(e, "llm_timeout", attempt) = "retry"
             THEN /\ attempt' = attempt + 1
                  /\ lastError' = e
                  /\ UNCHANGED <<pc, thrown, stageLog, delivered>>
             ELSE /\ attempt' = 0
                  /\ lastError' = {}
                  /\ stageLog' = EnterExecuting(stageLog)
                  /\ delivered' = Deliver("executing")
                  /\ pc' = "exec"
                  /\ UNCHANGED thrown
          /\ UNCHANGED testCases
  /\ UNCHANGED <<reqVars, unitVars, loopVars, sbVars, jobId, progressCallbacks, adaptiveTests,
                 topHypotheses, inference, fallbackUsed, result, counters>>

\* The body of the for loop after the execution of test idx has settled with result r
\* (r = Threw: the try block threw). The initial loop counts failures, the adaptive loop
\* only counts successes and emits nothing.
AfterExecution(r) ==
  /\ execLog' = Append(execLog, [phase |-> phase, idx |-> idx, input |-> CurrentInput,
                                 outcome |-> r])
  /\ IF r # Threw /\ ExecOk(r)
     THEN /\ observations' = Append(observations, Observation(CurrentInput, r.output))
          /\ obsLog' = Append(obsLog, Len(execLog) + 1)
          /\ successfulTests' = successfulTests + 1
          /\ UNCHANGED failedTests
     ELSE /\ failedTests' = IF phase = "initial" THEN failedTests + 1 ELSE failedTests
          /\ UNCHANGED <<observations, obsLog, successfulTests>>
  /\ idx' = NextIndex(idx)
  /\ stageLog' = IF phase = "initial" THEN emitProgress(stageLog, "executing") ELSE stageLog
  /\ delivered' = IF phase = "initial" THEN Deliver("executing") ELSE delivered
  /\ UNCHANGED phase

\* const result = config.useMockExecution ? mockExecution(input) : await executeInSandbox(...)
\* (mock execution, and an input that is not a string, settle within the step)
ExecuteTest ==
  /\ pc = "exec"
  /\ sbPc = "idle"
  /\ idx <= Len(CurrentBatch)
  /\ IF CurrentInput = Undefined
     THEN /\ AfterExecution(Threw)
          /\ UNCHANGED sbVars
     ELSE IF useMock
     THEN /\ AfterExecution(mockExecution(CurrentInput))
          /\ UNCHANGED sbVars
     ELSE /\ sbPc' = "write"
          /\ UNCHANGED <<loopVars, stageLog, delivered, container, containerState,
                         timedOut, timerFired, waitStatus, raceAt, sbResult, leftBehind,
                         faults>>
  /\ UNCHANGED <<reqVars, unitVars, llmVars, jobId, progressCallbacks, pc, testCases, adaptiveTests,
                 topHypotheses, inference, fallbackUsed, thrown, result, counters>>

\* executeInSandbox has returned: the loop body continues with its result
ExecutionReturns ==
  /\ pc = "exec"
  /\ sbPc = "returned"
  /\ AfterExecution(sbResult)
  /\ sbPc' = "idle"
  /\ container' = "null"
  /\ containerState' = "none"
  /\ timedOut' = FALSE
  /\ timerFired' = FALSE
  /\ waitStatus' = 0
  /\ raceAt' = 0
  /\ sbResult' = NoResult
  /\ UNCHANGED <<reqVars, unitVars, llmVars, jobId, progressCallbacks, pc, testCases, adaptiveTests,
                 topHypotheses, inference, fallbackUsed, thrown, result, counters,
                 leftBehind, faults>>

\* After the initial loop: if (observations.length === 0) throw new Error('No successful
\* test executions. Cannot infer problem.'); otherwise on to validation (enhanced) or to
\* the inference (basic)
AfterInitialBatch ==
  /\ pc = "exec"
  /\ phase = "initial"
  /\ sbPc = "idle"
  /\ idx > Len(testCases)
  /\ IF NoObservations(observations)
     THEN /\ thrown' = ErrNoSuccess
          /\ pc' = "catch"
          /\ UNCHANGED <<stageLog, delivered>>
     ELSE IF pipeline = "enhanced"
     THEN /\ pc' = "validate"
          /\ stageLog' = sendStageUpdate(stageLog, "executing")
          /\ UNCHANGED <<thrown, delivered>>
     ELSE /\ pc' = "infer"
          /\ stageLog' = emitProgress(stageLog, "inferring")
          /\ delivered' = Deliver("inferring")
          /\ UNCHANGED thrown
  /\ UNCHANGED <<reqVars, unitVars, loopVars, llmVars, sbVars, jobId, progressCallbacks, testCases,
                 adaptiveTests, topHypotheses, inference, fallbackUsed, result, counters>>

\* let topHypotheses = getTopHypotheses(observations, 5); if the two best are closer than
\* 0.2, generateAdaptiveTests and run them
ValidateHypotheses ==
  /\ pc = "validate"
  /\ LET top == getTopHypotheses(observations)
         close == /\ Len(top) > 1
                  /\ ConfGapLt(top[1].confidence, top[2].confidence, 2, 10)
         tests == IF close THEN generateAdaptiveTests(observations, top) ELSE <<>>
     IN /\ topHypotheses' = top
        /\ adaptiveTests' = tests
        /\ IF tests # <<>>
           THEN /\ phase' = "adaptive"
                /\ idx' = 1
                /\ pc' = "exec"
                /\ counters' = [counters EXCEPT !["validate"] = @ + 1,
                                                !["adaptive"] = @ + 1]
           ELSE /\ pc' = "detect"
                /\ counters' = Bump("validate")
                /\ UNCHANGED <<phase, idx>>
  /\ UNCHANGED <<reqVars, unitVars, llmVars, sbVars, cbVars, jobId, stageLog, testCases,
                 observations, successfulTests, failedTests, execLog, obsLog, inference,
                 fallbackUsed, thrown, result>>

\* Variant of RevalidateHypotheses that goes back to the closeness test
RevalidateAndLoop ==
  /\ pc = "exec"
  /\ phase = "adaptive"
  /\ sbPc = "idle"
  /\ idx > Len(adaptiveTests)
  /\ counters' = Bump("validate")
  /\ pc' = "validate"
  /\ UNCHANGED <<reqVars, unitVars, loopVars, llmVars, sbVars, cbVars, jobId, stageLog, testCases,
                 adaptiveTests, topHypotheses, inference, fallbackUsed, thrown, result>>

\* After the adaptive loop: topHypotheses = getTopHypotheses(observations, 5)
RevalidateHypotheses ==
  /\ pc = "exec"
  /\ phase = "adaptive"
  /\ sbPc = "idle"
  /\ idx > Len(adaptiveTests)
  /\ topHypotheses' = getTopHypotheses(observations)
  /\ counters' = Bump("validate")
  /\ pc' = "detect"
  /\ UNCHANGED <<reqVars, unitVars, loopVars, llmVars, sbVars, cbVars, jobId, stageLog, testCases,
                 adaptiveTests, inference, fallbackUsed, thrown, result>>


\* detectPatterns(observations), then Stage 3 opens: sendStageUpdate(jobId, 'inferring', 70)
\* and emitProgress(jobId, { stage: 'inferring', progress: 70 })
OpenInference ==
  /\ pc = "detect"
  /\ stageLog' = emitProgress(sendStageUpdate(stageLog, "inferring"), "inferring")
  /\ delivered' = Deliver("inferring")
  /\ attempt' = 0
  /\ pc' = "reason"
  /\ UNCHANGED <<reqVars, unitVars, loopVars, sbVars, jobId, progressCallbacks, testCases,
                 adaptiveTests, topHypotheses, inference, fallbackUsed, lastError, thrown,
                 result, counters>>

\* request.useMock: inference = generateMockEnhancedInference(observations, topHypotheses)
MockReasoning ==
  /\ pc = "reason"
  /\ useMock
  /\ inference' = generateMockEnhancedInference(observations, topHypotheses)
  /\ pc' = "verify"
  /\ UNCHANGED <<reqVars, unitVars, loopVars, llmVars, sbVars, cbVars, jobId, stageLog, testCases,
                 adaptiveTests, topHypotheses, fallbackUsed, thrown, result, counters>>

\* One attempt of withRecovery(() => inferProblemWithHypotheses(...), 'llm_timeout'); when
\* withRecovery gives up, the catch block sets fallbackUsed and builds the fallback inference
ReasoningAttempt ==
  /\ pc = "reason"
  /\ ~useMock
  /\ counters' = Bump("reasoning")
  /\ \/ \E inf \in LlmInferences :
          /\ inference' = inf
          /\ attempt' = 0
          /\ lastError' = {}
          /\ pc' = "verify"
          /\ UNCHANGED fallbackUsed
     \/ \E e \in LlmErrors :
          /\ IF AfterFailure(e, "llm_timeout", attempt) = "retry"
             THEN /\ attempt' = attempt + 1
                  /\ lastError' = e
                  /\ UNCHANGED <<pc, inference, fallbackUsed>>
             ELSE /\ attempt' = 0
                  /\ lastError' = {}
                  /\ fallbackUsed' = TRUE
                  /\ inference' = FallbackInference(observations, topHypotheses)
                  /\ pc' = "verify"
  /\ UNCHANGED <<reqVars, unitVars, loopVars, sbVars, cbVars, jobId, stageLog, testCases,
                 adaptiveTests, topHypotheses, thrown, result>>

\* runAnalysisPipeline, Stage 3: generateMockInference(observations) or one call of
\* inferProblem, whose failure reaches the catch block
InferProblem ==
  /\ pc = "infer"
  /\ IF useMock
     THEN /\ inference' = generateMockInference(observations)
          /\ pc' = "complete"
          /\ UNCHANGED <<counters, thrown>>
     ELSE /\ counters' = Bump("reasoning")
          /\ \/ \E inf \in LlmInferences :
                  /\ inference' = inf
                  /\ pc' = "complete"
                  /\ UNCHANGED thrown
             \/ \E e \in LlmErrors :
                  /\ thrown' = e
                  /\ pc' = "catch"
                  /\ UNCHANGED inference
  /\ UNCHANGED <<reqVars, unitVars, loopVars, llmVars, sbVars, cbVars, jobId, stageLog, testCases,
                 adaptiveTests, topHypotheses, fallbackUsed, result>>

\* Stage 4: sendStageUpdate(jobId, 'inferring', 90); verifySolution(...);
\* analyzeResultQuality(...), which throws on an inference without solutionCode
VerifyResult ==
  /\ pc = "verify"
  /\ stageLog' = sendStageUpdate(stageLog, "inferring")
  /\ IF QualityThrows(inference)
     THEN /\ counters' = [counters EXCEPT !["verify"] = @ + 1]
          /\ thrown' = ErrTypeError
          /\ pc' = "catch"
     ELSE /\ counters' = [counters EXCEPT !["verify"] = @ + 1, !["quality"] = @ + 1]
          /\ pc' = "complete"
          /\ UNCHANGED thrown
  /\ UNCHANGED <<reqVars, unitVars, loopVars, llmVars, sbVars, cbVars, jobId, testCases,
                 adaptiveTests, topHypotheses, inference, fallbackUsed, result>>

\* sendStageUpdate(jobId, 'complete', 100); emitProgress(jobId, { stage: 'complete' });
\* return { jobId, success: true, inference, observations, testCases, executionStats, ... }
Complete ==
  /\ pc = "complete"
  /\ ~CallbackThrows("complete")
  /\ stageLog' = IF pipeline = "enhanced"
                 THEN emitProgress(sendStageUpdate(stageLog, "complete"), "complete")
                 ELSE emitProgress(stageLog, "complete")
  /\ delivered' = Deliver("complete")
  /\ result' = [success |-> TRUE,
                error |-> RawMessage({}),
                inference |-> inference,
                observations |-> observations,
                executionStats |-> [totalTests |-> Len(testCases),
                                    successfulTests |-> successfulTests,
                                    failedTests |-> failedTests],
                qualityScore |-> IF pipeline = "enhanced"
                                 THEN analyzeResultQuality(inference, observations)
                                 ELSE 0]
  /\ counters' = Bump("complete")
  /\ pc' = "done"
  /\ UNCHANGED <<reqVars, unitVars, loopVars, llmVars, sbVars, jobId, progressCallbacks, testCases,
                 adaptiveTests, topHypotheses, inference, fallbackUsed, thrown>>

\* catch (error): the message (getErrorMessage(classifyError(err), err) in the enhanced
\* pipeline, err.message in the basic one), the error event, { jobId, success: false, error }
Catch ==
  /\ pc = "catch"
  /\ ~CallbackThrows("error")
  /\ LET errorMessage == IF pipeline = "enhanced"
                         THEN getErrorMessage(classifyError(thrown), thrown)
                         ELSE RawMessage(thrown)
     IN result' = [success |-> FALSE,
                   error |-> errorMessage,
                   inference |-> NoInference,
                   observations |-> <<>>,
                   executionStats |-> [totalTests |-> 0, successfulTests |-> 0,
                                       failedTests |-> 0],
                   qualityScore |-> 0]
  /\ stageLog' = IF pipeline = "enhanced"
                 THEN emitProgress(Append(stageLog, Stage("ws", "error")), "error")
                 ELSE emitProgress(stageLog, "error")
  /\ delivered' = Deliver("error")
  /\ counters' = Bump("catch")
  /\ pc' = "done"
  /\ UNCHANGED <<reqVars, unitVars, loopVars, llmVars, sbVars, jobId, progressCallbacks, testCases,
                 adaptiveTests, topHypotheses, inference, fallbackUsed, thrown>>

Next ==
  \/ \E id \in JobIds : OnProgress(id)
  \/ \E id \in JobIds : OffProgress(id)
  \/ StartRun
  \/ GenerateTests
  \/ LlmTestsAttempt
  \/ ExecuteTest
  \/ SbWriteInput
  \/ SbCreateContainer
  \/ SbStart
  \/ SbWait
  \/ SbTimerFires
  \/ SbLogs
  \/ SbStop
  \/ SbRemove
  \/ ExecutionReturns
  \/ AfterInitialBatch
  \/ ValidateHypotheses
  \/ RevalidateHypotheses
  \/ OpenInference
  \/ MockReasoning
  \/ ReasoningAttempt
  \/ InferProblem
  \/ VerifyResult
  \/ Complete
  \/ Catch

Spec == Init /\ [][Next]_vars


\* ------------------------------------------------------------ properties
\* What the properties read from the history of a run
BatchOf(e) == IF e.phase = "initial" THEN testCases ELSE adaptiveTests

Failing(e) ==
  \/ e.outcome = Threw
  \/ e.outcome.error # "none"
  \/ e.outcome.timedOut
  \/ e.outcome.exitCode # 0

Observed(j) == \E k \in 1..Len(obsLog) : obsLog[k] = j

InitialRuns == SelectSeq(execLog, LAMBDA e : e.phase = "initial")

AdaptiveRuns == SelectSeq(execLog, LAMBDA e : e.phase = "adaptive")

InitialBatchResolved ==
  /\ pc \notin {"idle", "generate", "gen_llm"}
  /\ Len(testCases) > 0
  /\ Len(InitialRuns) = Len(testCases)

Rank(stage) ==
  CASE stage = "generating" -> 1
    [] stage = "executing" -> 2
    [] stage = "inferring" -> 3
    [] stage = "complete" -> 4
    [] stage = "error" -> 4

Emitted(stage) == \E i \in 1..Len(stageLog) : stageLog[i].stage = stage

LastStage == stageLog[Len(stageLog)].stage

\* C1: every observation was appended for a test whose execution returned a result with
\* no error, timedOut false and exitCode 0, and carries that test's input and that
\* result's output; an execution that failed one of the three conditions, or threw,
\* appended nothing (both pipelines)
C1_ObservationsFromSuccessfulRuns ==
  /\ Len(obsLog) = Len(observations)
  /\ \A k \in 1..Len(observations) :
       /\ obsLog[k] \in 1..Len(execLog)
       /\ \A m \in 1..Len(observations) : m # k => obsLog[m] # obsLog[k]
       /\ LET e == execLog[obsLog[k]] IN
            /\ e.outcome # Threw
            /\ e.outcome.error = "none"
            /\ ~e.outcome.timedOut
            /\ e.outcome.exitCode = 0
            /\ e.input = BatchOf(e)[e.idx].input
            /\ observations[k].input = e.input
            /\ observations[k].output = e.outcome.output
  /\ \A j \in 1..Len(execLog) : Failing(execLog[j]) => ~Observed(j)

\* C1 happens: an observation was appended, and a run whose result had exit code 0 but
\* the timedOut flag set appended none
C1_Witness ==
  /\ Len(observations) >= 1
  /\ \E j \in 1..Len(execLog) :
       /\ execLog[j].outcome # Threw
       /\ execLog[j].outcome.timedOut
       /\ execLog[j].outcome.exitCode = 0
       /\ ~Observed(j)

\* C2: a sandbox run in which the program's process exits with a nonzero status appends
\* no observation and is counted as a failed attempt (failedTests incremented,
\* successfulTests not), in the initial batch and in the adaptive batch
C2_NonzeroExitIsAFailedAttempt ==
  /\ \A j \in 1..Len(execLog) :
       (execLog[j].outcome # Threw /\ execLog[j].outcome.output.marker # 0) => ~Observed(j)
  /\ successfulTests = Len(observations)
  /\ failedTests = Cardinality({j \in 1..Len(execLog) : Failing(execLog[j])})

\* C3: executeInSandbox on a program that never terminates by itself, with a timeout of
\* 1000 ms, returns no later than the timeout plus the grace period with timedOut = true,
\* and the pipeline appends no observation for that test
C3_LoopingProgramTimesOut ==
  /\ (/\ sbPc = "returned"
      /\ timeout = 1000
      /\ sbResult.error = "none"
      /\ ProgramBehaviour(program, CurrentInput) = "loop")
       => (sbResult.timedOut /\ raceAt <= TimerAt(timeout))
  /\ \A j \in 1..Len(execLog) :
       (/\ timeout = 1000
        /\ ~useMock
        /\ execLog[j].outcome # Threw
        /\ execLog[j].outcome.error = "none"
        /\ ProgramBehaviour(program, execLog[j].input) = "loop") => ~Observed(j)

\* C4: when a call of executeInSandbox that created a container returns, the container
\* has been stopped and removed, on every exit path; no call leaves its container behind
C4_ContainerRemovedOnReturn ==
  /\ (sbPc = "returned" /\ container # "null") => containerState = "removed"
  /\ leftBehind = 0

C8_FallbackIsLowConfidence ==
  (fallbackUsed /\ pc = "done" /\ result.success) =>
    /\ ~ConfGt(result.inference.confidence, 1, 2)
    /\ result.inference.problemTitle = "Analysis Result (Partial)"

\* C9: a run of runEnhancedPipeline enters the adaptive loop at most once, runs at most
\* 10 adaptive tests, re-validates the hypotheses once after them and goes on to the
\* reasoning; once there it executes and generates nothing more
C9_AdaptiveLoopAtMostOnce ==
  /\ Count("adaptive") <= 1
  /\ Len(adaptiveTests) <= AdaptiveLimit
  /\ Len(AdaptiveRuns) <= Len(adaptiveTests)
  /\ Count("validate") <= 1 + Count("adaptive")
  /\ phase = "adaptive" <=> Count("adaptive") = 1
  /\ Count("adaptive") = 1 => pipeline = "enhanced"
  /\ (pipeline = "enhanced" /\ pc \in {"detect", "reason", "verify", "complete"}) =>
       /\ Count("validate") = 1 + Count("adaptive")
       /\ Len(AdaptiveRuns) = Len(adaptiveTests)
       /\ Len(execLog) = Len(testCases) + Len(adaptiveTests)
  /\ (pc = "done" /\ result.success /\ pipeline = "enhanced") =>
       /\ Count("validate") = 1 + Count("adaptive")
       /\ Len(execLog) = Len(testCases) + Len(adaptiveTests)

\* C9 happens: a run went through the adaptive loop, with ambiguous hypotheses after the
\* re-validation as well, and returned
C9_Witness ==
  /\ Count("adaptive") = 1
  /\ Len(AdaptiveRuns) >= 1
  /\ Len(topHypotheses) > 1
  /\ ConfGapLt(topHypotheses[1].confidence, topHypotheses[2].confidence, 2, 10)
  /\ pc = "done"
  /\ result.success

ErrorTypes ==
  {"llm_timeout", "llm_rate_limit", "llm_invalid_response", "docker_timeout",
   "docker_memory", "docker_network", "execution_failed", "parse_error", "unknown"}

\* One error message per kind classifyError tells apart
OperationErrors ==
  { {"timeout", "gemini"}, {"429"}, {"invalid", "json"}, {"timeout", "docker"},
    {"memory"}, {"network"}, {"execution"}, {"parse"}, {} }

BackoffLinear(strategy, attemptNo) == strategy.backoffMs * attemptNo

\* const backoff = strategy.backoffMs * Math.pow(2, attempt - 1)
Backoff(strategy, attemptNo) == strategy.backoffMs * 2 ^ (attemptNo - 1)

InitRecovery ==
  /\ pipeline = "enhanced"
  /\ useMock = FALSE
  /\ program = [fn |-> "sum", bad |-> "none", how |-> "exit1"]
  /\ dockerUp = TRUE
  /\ timeout = DockerTimeout
  /\ PipelineIdle
  /\ callback = {}
  /\ engine = NoEngine
  /\ constraints = NoParse
  /\ websocket = NoServer
  /\ \E errorType \in ErrorTypes :
       recovery = [NoCall EXCEPT !.pc = "call", !.errorType = errorType]

\* if (attempt > 0) { await new Promise(resolve => setTimeout(resolve, backoff)) }
RecoverySleep ==
  /\ recovery.pc = "sleep"
  /\ recovery' = [recovery EXCEPT
                    !.pc = "call",
                    !.waits = Append(@, Backoff(StrategyOf(recovery.errorType),
                                                recovery.attempt))]
  /\ UNCHANGED <<reqVars, jobId, cbVars, pc, stageLog, testCases, adaptiveTests, loopVars,
                 topHypotheses, inference, fallbackUsed, llmVars, thrown, result, sbVars,
                 callback, counters, engine, constraints, websocket>>

\* return await operation(): the operation resolves; its value is told apart by the
\* number of the invocation that produced it
RecoveryOperationResolves ==
  /\ recovery.pc = "call"
  /\ recovery' = [recovery EXCEPT !.pc = "returned", !.calls = @ + 1,
                                  !.value = recovery.calls + 1]
  /\ UNCHANGED <<reqVars, jobId, cbVars, pc, stageLog, testCases, adaptiveTests, loopVars,
                 topHypotheses, inference, fallbackUsed, llmVars, thrown, result, sbVars,
                 callback, counters, engine, constraints, websocket>>

\* The operation rejects: the catch block, then the next iteration of the loop or, with
\* the loop over, throw lastError (no policy has a fallback)
RecoveryOperationRejects(error) ==
  /\ recovery.pc = "call"
  /\ recovery' = [recovery EXCEPT
                    !.calls = @ + 1,
                    !.lastError = error,
                    !.errors = Append(@, error),
                    !.attempt = IF AfterFailure(error, recovery.errorType,
                                                recovery.attempt) = "retry"
                                THEN @ + 1 ELSE @,
                    !.pc = IF AfterFailure(error, recovery.errorType,
                                           recovery.attempt) = "retry"
                           THEN "sleep" ELSE "rejected"]
  /\ UNCHANGED <<reqVars, jobId, cbVars, pc, stageLog, testCases, adaptiveTests, loopVars,
                 topHypotheses, inference, fallbackUsed, llmVars, thrown, result, sbVars,
                 callback, counters, engine, constraints, websocket>>

NextRecovery ==
  \/ RecoverySleep
  \/ RecoveryOperationResolves
  \/ \E error \in OperationErrors : RecoveryOperationRejects(error)

SpecRecovery == InitRecovery /\ [][NextRecovery]_vars

\* C11: withRecovery invokes the operation at most maxRetries + 1 times (maxRetries of
\* the declared kind's policy); it returns the value of the first invocation that
\* resolves and invokes nothing after it; the k-th retry is preceded by a wait of
\* backoffMs * 2^(k-1) ms; a call whose invocations all rejected rejects with the error of
\* the last one.
C11_BoundedRetriesWithBackoff ==
  LET policy == StrategyOf(recovery.errorType)
      Pow2[k \in 0..8] == IF k = 0 THEN 1 ELSE 2 * Pow2[k - 1]
  IN /\ recovery.calls <= policy.maxRetries + 1
     /\ Len(recovery.errors) <= recovery.calls
     /\ recovery.pc = "returned" =>
          /\ recovery.value = recovery.calls
          /\ Len(recovery.errors) = recovery.calls - 1
     /\ recovery.pc \in {"call", "returned"} =>
          /\ Len(recovery.waits) = Len(recovery.errors)
          /\ recovery.calls \in {Len(recovery.waits), Len(recovery.waits) + 1}
     /\ \A k \in 1..Len(recovery.waits) :
          recovery.waits[k] = policy.backoffMs * Pow2[k - 1]
     /\ recovery.pc = "rejected" =>
          /\ Len(recovery.errors) = recovery.calls
          /\ recovery.lastError = recovery.errors[recovery.calls]
     /\ Len(recovery.errors) = policy.maxRetries + 1 => recovery.pc = "rejected"

\* A call that resolved at its third retry after waiting 2000, 4000 and 8000 ms
C11_Witness ==
  /\ recovery.pc = "returned"
  /\ recovery.errorType = "llm_timeout"
  /\ recovery.calls = 4
  /\ recovery.waits = <<2000, 4000, 8000>>

\* C12: a failure whose classified kind differs from the declared kind and whose kind's
\* policy allows no retry ends the call at once, without another invocation or wait; every
\* other failure is retried while the declared kind's retry budget lasts.
C12_RetryUnlessPolicyForbids ==
  LET n == Len(recovery.errors)
      actualType == classifyError(recovery.errors[n])
      forbidden == /\ actualType # recovery.errorType
                   /\ StrategyOf(actualType).maxRetries = 0
  IN (n > 0 /\ recovery.pc # "call") =>
       /\ forbidden => /\ recovery.pc = "rejected"
                       /\ Len(recovery.waits) = n - 1
       /\ (~forbidden /\ recovery.pc = "rejected") =>
            recovery.calls = StrategyOf(recovery.errorType).maxRetries + 1

\* ------------------------------------------- executeInSandbox, with progress
\* Every awaited Docker call of executeInSandbox settles (resolves or rejects), except
\* container.wait() on a container that never exits, and the setTimeout timer fires.
SandboxStep ==
  \/ SbWriteInput
  \/ SbCreateContainer
  \/ SbStart
  \/ SbWait
  \/ SbTimerFires
  \/ SbLogs
  \/ SbStop
  \/ SbRemove

FairSpec == Spec /\ WF_vars(SandboxStep)

\* The call is past its try/catch, the container never exited by itself and its wait
\* did not settle: the timer won the race
HangingCallReturned ==
  /\ sbPc \in {"finally", "remove", "returned"}
  /\ ProgramBehaviour(program, CurrentInput) = "hang"
  /\ timerFired
  /\ waitStatus = -1

\* The call is at its finally block after createContainer or start failed
FailedToStart ==
  /\ sbPc = "finally"
  /\ containerState \in {"none", "created"}

\* C13: every call of executeInSandbox eventually returns an ExecutionResult; when the
\* container's wait never resolves the result has timedOut = true and exitCode -1; when
\* creating or starting the container fails the result has an error and timedOut = false.
C13_SandboxAlwaysReturns ==
  /\ [](sbPc = "returned" => sbResult # NoResult)
  /\ [](HangingCallReturned => (sbResult.timedOut /\ sbResult.exitCode = -1))
  /\ [](FailedToStart => (sbResult.error # "none" /\ ~sbResult.timedOut))
  /\ (sbPc = "write") ~> (sbPc = "returned")

\* ------------------------------------------- the hypothesis engine, on its own
\* validateHypotheses and getTopHypotheses for any observation list: every input of the
\* pool (and '1\n1', '2\n1 2\n' and a text without any number) paired with what each
\* modelled library function prints for it and with an output none prints.
ObservationPool ==
  LET Printed(input, values) == {Observation(input, Out(<<Num(v)>>, 0)) : v \in values}
  IN Printed(In_1_42, {42, 1, 999})
     \cup Printed(Text(<< <<1>>, <<1>> >>, FALSE), {1, 999})
     \cup Printed(In_3_115, {7, 3, 5, 1, 999})
     \cup Printed(In_4_neg, {-10, 4, -1, -4, 999})
     \cup Printed(Text(<< <<2>>, <<1, 2>> >>, TRUE), {3, 999})
     \cup Printed(Text(<< <<>> >>, FALSE), {0, 999})

InitEngine ==
  /\ pipeline = "enhanced"
  /\ useMock = FALSE
  /\ program = [fn |-> "sum", bad |-> "none", how |-> "exit1"]
  /\ dockerUp = TRUE
  /\ timeout = DockerTimeout
  /\ PipelineIdle
  /\ callback = {}
  /\ recovery = NoCall
  /\ constraints = NoParse
  /\ websocket = NoServer
  /\ \E obs \in SeqsUpTo(ObservationPool, MaxObs) :
       engine = [NoEngine EXCEPT !.pc = "called", !.observations = obs]

\* validateHypotheses(observations)
EngineValidate ==
  /\ engine.pc = "called"
  /\ engine' = [engine EXCEPT !.pc = "validated",
                              !.validated = validateHypotheses(engine.observations)]
  /\ UNCHANGED <<reqVars, jobId, cbVars, pc, stageLog, testCases, adaptiveTests, loopVars,
                 topHypotheses, inference, fallbackUsed, llmVars, thrown, result, sbVars,
                 callback, counters, recovery, constraints, websocket>>

\* getTopHypotheses(observations)
EngineTop ==
  /\ engine.pc = "validated"
  /\ engine' = [engine EXCEPT !.pc = "top",
                              !.top = getTopHypotheses(engine.observations)]
  /\ UNCHANGED <<reqVars, jobId, cbVars, pc, stageLog, testCases, adaptiveTests, loopVars,
                 topHypotheses, inference, fallbackUsed, llmVars, thrown, result, sbVars,
                 callback, counters, recovery, constraints, websocket>>

\* A hypothesis list a caller may hand to generateAdaptiveTests besides the top
\* hypotheses: Array Sum at confidence 0.9 and Maximum Element at 0.75
CloseHypotheses ==
  << [id |-> "sum", name |-> "Array Sum", confidence |-> <<9, 10>>,
      matchCount |-> 9, mismatchCount |-> 1],
     [id |-> "max", name |-> "Maximum Element", confidence |-> <<3, 4>>,
      matchCount |-> 3, mismatchCount |-> 1] >>

\* generateAdaptiveTests(observations, hypotheses, inputFormat)
EngineAdaptive(hypotheses) ==
  /\ engine.pc = "top"
  /\ engine' = [engine EXCEPT
                  !.pc = "adaptive",
                  !.hypotheses = hypotheses,
                  !.suggestions = suggestNextTestCategories(engine.observations),
                  !.adaptive = generateAdaptiveTests(engine.observations, hypotheses)]
  /\ UNCHANGED <<reqVars, jobId, cbVars, pc, stageLog, testCases, adaptiveTests, loopVars,
                 topHypotheses, inference, fallbackUsed, llmVars, thrown, result, sbVars,
                 callback, counters, recovery, constraints, websocket>>

NextEngine ==
  \/ EngineValidate
  \/ EngineTop
  \/ \E hypotheses \in {engine.top, CloseHypotheses} : EngineAdaptive(hypotheses)

SpecEngine == InitEngine /\ [][NextEngine]_vars

\* C14: every hypothesis validateHypotheses returns has matchCount + mismatchCount equal
\* to the number of observations and a confidence of matchCount / (matchCount +
\* mismatchCount), which lies between 0 and 1.
C14_CountsAndConfidence ==
  \A k \in 1..Len(engine.validated) :
    LET h == engine.validated[k] IN
    /\ h.matchCount >= 0 /\ h.mismatchCount >= 0
    /\ h.matchCount + h.mismatchCount = Len(engine.observations)
    /\ h.confidence[2] > 0
    /\ h.confidence[1] * (h.matchCount + h.mismatchCount) = h.matchCount * h.confidence[2]
    /\ 0 <= h.confidence[1] /\ h.confidence[1] <= h.confidence[2]

\* Three observations for which a returned hypothesis matches two and misses one
C14_Witness ==
  /\ engine.pc = "validated"
  /\ Len(engine.observations) = 3
  /\ \E k \in 1..Len(engine.validated) :
       engine.validated[k].matchCount = 2 /\ engine.validated[k].mismatchCount = 1

\* The numbers of an input: all its integers, without the first one when it is the size
\* prefix (it equals the count of the integers after it)
InputNumbers(input) ==
  LET all == Flatten(input.lines) IN
  IF all # <<>> /\ all[1] = Len(all) - 1 THEN Tail(all) ELSE all

\* Each output of the call's observations is the sum of its input's numbers
OutputsAreSums ==
  \A k \in 1..Len(engine.observations) :
    engine.observations[k].output
      = Out(<<SumNum(InputNumbers(engine.observations[k].input))>>, 0)

\* Array Sum is returned at confidence 1, before every hypothesis that fails an
\* observation, and is the first of the top hypotheses
ArraySumLeads ==
  /\ \E k \in 1..Len(engine.validated) :
       /\ engine.validated[k].name = "Array Sum"
       /\ engine.validated[k].confidence[1] = engine.validated[k].confidence[2]
       /\ \A j \in 1..Len(engine.validated) :
            engine.validated[j].mismatchCount > 0 => k < j
  /\ engine.top # <<>>
  /\ engine.top[1].name = "Array Sum"

\* C15 (as stated): for every observation list whose outputs are the sums of the inputs'
\* numbers, validateHypotheses returns Array Sum at confidence 1.0 before every
\* hypothesis that fails an observation, and getTopHypotheses returns it first.
C15_ArraySumLeads ==
  (engine.pc = "top" /\ OutputsAreSums) => ArraySumLeads

\* C15 (amended): the same for every non-empty observation list whose inputs each hold
\* at least one number.
C15_ArraySumLeadsNonEmpty ==
  ( /\ engine.pc = "top"
    /\ OutputsAreSums
    /\ engine.observations # <<>>
    /\ \A k \in 1..Len(engine.observations) :
         Flatten(engine.observations[k].input.lines) # <<>> )
  => ArraySumLeads

\* Three sums, two of them of a one-element array, so that Maximum Element is returned
\* too, behind Array Sum
C15_Witness ==
  /\ engine.pc = "top"
  /\ OutputsAreSums
  /\ Len(engine.observations) = 3
  /\ \A k \in 1..3 : Flatten(engine.observations[k].input.lines) # <<>>
  /\ \E j \in 2..Len(engine.validated) : engine.validated[j].mismatchCount = 1
  /\ engine.top[1].name = "Array Sum"

\* The library hypotheses that match every observation of the call
MatchingAll ==
  {k \in 1..Len(hypothesisLibrary) :
     \A j \in 1..Len(engine.observations) :
       validator(hypothesisLibrary[k].id, engine.observations[j].input,
                 engine.observations[j].output)}

\* C16: validateHypotheses returns its hypotheses in non-increasing order of confidence;
\* getTopHypotheses returns at most limit hypotheses: only hypotheses of confidence 1.0
\* when some library hypothesis matches every observation, otherwise the limit
\* highest-confidence ones; when exactly one library hypothesis matches all observations
\* it is the top hypothesis, at confidence 1.0.
C16_OrderedAndTop ==
  /\ \A j, k \in 1..Len(engine.validated) :
       j < k => engine.validated[j].confidence[1] * engine.validated[k].confidence[2]
                  >= engine.validated[k].confidence[1] * engine.validated[j].confidence[2]
  /\ engine.pc = "top" =>
       /\ Len(engine.top) <= TopLimit
       /\ IF MatchingAll # {}
          THEN \A k \in 1..Len(engine.top) :
                 engine.top[k].confidence[1] = engine.top[k].confidence[2]
          ELSE /\ Len(engine.top) = Min2(TopLimit, Len(engine.validated))
               /\ \A k \in 1..Len(engine.top) : engine.top[k] = engine.validated[k]
       /\ Cardinality(MatchingAll) = 1 =>
            /\ engine.top # <<>>
            /\ \E k \in MatchingAll : engine.top[1].name = hypothesisLibrary[k].name
            /\ engine.top[1].confidence[1] = engine.top[1].confidence[2]

\* Six hypotheses match every observation and the limit cuts the answer to five
C16_Witness ==
  /\ engine.pc = "top"
  /\ engine.observations # <<>>
  /\ Len(engine.validated) > TopLimit
  /\ Len(engine.top) = TopLimit

\* The library hypotheses validateHypotheses returned, by id
ReturnedIds == {engine.validated[k].id : k \in 1..Len(engine.validated)}

\* C17: validateHypotheses discards a library hypothesis exactly when its confidence is
\* below 0.5: for a non-empty observation list every hypothesis that matches at least
\* half of the observations is returned, and none that matches fewer than half.
C17_DiscardedBelowHalf ==
  (engine.pc = "validated" /\ engine.observations # <<>>) =>
    \A k \in 1..Len(hypothesisLibrary) :
      LET id == hypothesisLibrary[k].id
          matching == Cardinality({j \in 1..Len(engine.observations) :
                         validator(id, engine.observations[j].input,
                                   engine.observations[j].output)})
      IN id \in ReturnedIds <=> 2 * matching >= Len(engine.observations)

\* C18: the batch runEnhancedPipeline queues for execution (in mock mode, merged from
\* strategy and LLM tests, or the strategy tests alone after LLM generation failed) holds
\* no two test cases with the same normalized input.
C18_QueuedBatchHasNoDuplicates ==
  (pipeline = "enhanced" /\ pc = "exec" /\ phase = "initial") =>
    \A a, b \in 1..Len(testCases) :
      a # b => NormalizeInput(testCases[a].input) # NormalizeInput(testCases[b].input)

\* C19: generateAdaptiveTests returns at most 10 test cases, none with the normalized
\* input of an observation it was given and no two with the same normalized input.
C19_AdaptiveTestsAreNew ==
  engine.pc = "adaptive" =>
    /\ Len(engine.adaptive) <= 10
    /\ \A a \in 1..Len(engine.adaptive) :
         /\ \A k \in 1..Len(engine.observations) :
              NormalizeInput(engine.adaptive[a].input)
                # NormalizeInput(engine.observations[k].input)
         /\ \A b \in 1..Len(engine.adaptive) :
              a # b => NormalizeInput(engine.adaptive[a].input)
                         # NormalizeInput(engine.adaptive[b].input)

\* The pairs of library hypotheses the lookup table of discriminating tests has an
\* entry for: sum_vs_max, sum_vs_count, max_vs_min, first_vs_last
TablePairs == {{"sum", "max"}, {"sum", "count"}, {"max", "min"}, {"first", "last"}}

\* C20: when the two best hypotheses differ by less than 0.2 in confidence and the
\* lookup table covers the pair, the list generateAdaptiveTests returns holds a test
\* case of category discriminating with a non-empty input.
C20_CloseHypothesesGetDiscriminatingTest ==
  ( /\ engine.pc = "adaptive"
    /\ Len(engine.hypotheses) > 1
    /\ 5 * ( engine.hypotheses[1].confidence[1] * engine.hypotheses[2].confidence[2]
             - engine.hypotheses[2].confidence[1] * engine.hypotheses[1].confidence[2] )
         < engine.hypotheses[1].confidence[2] * engine.hypotheses[2].confidence[2]
    /\ {engine.hypotheses[1].id, engine.hypotheses[2].id} \in TablePairs )
  => \E a \in 1..Len(engine.adaptive) :
       /\ engine.adaptive[a].category = "discriminating"
       /\ Flatten(engine.adaptive[a].input.lines) # <<>>

\* Whether some observed input of the call exhibits a category; sortedness and duplicates
\* are judged on the array elements (the numbers without the size prefix)
Exhibited(category) ==
  \E k \in 1..Len(engine.observations) :
    LET all == Flatten(engine.observations[k].input.lines)
        elements == InputNumbers(engine.observations[k].input)
    IN CASE category = "negative_values" -> \E j \in 1..Len(all) : all[j] < 0
         [] category = "large_values" ->
              \E j \in 1..Len(all) : all[j] >= Million \/ all[j] <= -Million
         [] category = "minimal_cases" -> Len(all) = 2 /\ all[1] = 1
         [] category = "sorted_inputs" ->
              \/ \A j \in 2..Len(elements) : elements[j - 1] <= elements[j]
              \/ \A j \in 2..Len(elements) : elements[j - 1] >= elements[j]
         [] category = "duplicate_elements" ->
              \E i, j \in 1..Len(elements) : i # j /\ elements[i] = elements[j]

\* C21: suggestNextTestCategories reports each of the categories negative values, large
\* magnitudes, single-element case, sorted input and duplicate-bearing input exactly
\* when no observed input exhibits it, and generateAdaptiveTests returns at least one
\* canned test of every reported category.
C21_MissingCategoriesGetTests ==
  engine.pc = "adaptive" =>
    \A category \in {"negative_values", "large_values", "minimal_cases", "sorted_inputs",
                     "duplicate_elements"} :
      LET reported == \E k \in 1..Len(engine.suggestions) : engine.suggestions[k] = category
      IN /\ reported <=> ~Exhibited(category)
         /\ reported => \E a \in 1..Len(engine.adaptive) :
                          engine.adaptive[a].category = category

\* ------------------------------------------ parseConstraints, boundary tests
\* A constraints text is kept as the sequence of its lexical pieces: a run of digits, a
\* word, one of the characters of the class [<=] and U+2264, a run of white space, the
\* caret, or any other character. The two patterns are matched piece by piece, the
\* way the regular expressions match character by character.
Digits(v) == [k |-> "num", v |-> v, s |-> ""]

Word(s) == [k |-> "id", v |-> 0, s |-> s]

Sign(s) == [k |-> "op", v |-> 0, s |-> s]

Blank == [k |-> "ws", v |-> 0, s |-> " "]

Caret == [k |-> "pow", v |-> 0, s |-> "^"]

Other(s) == [k |-> "other", v |-> 0, s |-> s]

MaybeBlank(spaced) == IF spaced THEN <<Blank>> ELSE <<>>

\* The ways a bound is written: U+2264, ASCII <=, ASCII <
Relations == {<<Sign("U+2264")>>, <<Sign("<"), Sign("=")>>, <<Sign("<")>>}

\* The upper bounds: 3, 100 and 10^5
UpperBounds == {<<Digits(3)>>, <<Digits(100)>>, <<Digits(10), Caret, Digits(5)>>}

VariableNames == {"n", "N", "size", "m"}

\* lo REL name REL hi
RangeText(lo, rel, name, hi, spaced) ==
  <<Digits(lo)>> \o MaybeBlank(spaced) \o rel \o MaybeBlank(spaced) \o <<Word(name)>>
    \o MaybeBlank(spaced) \o rel \o MaybeBlank(spaced) \o hi

\* name REL hi
UpperText(rel, name, hi, spaced) ==
  <<Word(name)>> \o MaybeBlank(spaced) \o rel \o MaybeBlank(spaced) \o hi

\* '1 U+2264 n U+2264 100, -10^9 U+2264 a[i] U+2264 10^9', the text of test-phase2.ts
TwoRangesText ==
  RangeText(1, <<Sign("U+2264")>>, "n", <<Digits(100)>>, TRUE)
    \o <<Other(","), Blank, Other("-"), Digits(10), Caret, Digits(9), Blank,
         Sign("U+2264"), Blank, Word("a"), Other("["), Word("i"), Other("]"), Blank,
         Sign("U+2264"), Blank, Digits(10), Caret, Digits(9)>>

ConstraintTexts ==
  {RangeText(lo, rel, name, hi, spaced) :
     lo \in {0, 1}, rel \in Relations, name \in VariableNames, hi \in UpperBounds,
     spaced \in BOOLEAN}
    \cup {UpperText(rel, name, hi, spaced) :
            rel \in Relations, name \in VariableNames, hi \in UpperBounds,
            spaced \in BOOLEAN}
    \cup {<<>>, <<Word("no"), Blank, Word("limits")>>, <<Other("?"), Other("(")>>,
          <<Digits(1), Blank, Word("to"), Blank, Digits(100)>>, TwoRangesText}

\* An input format text, by the keywords its lower-cased form contains
InputFormats ==
  {{}, {"array"}, {"n integers"}, {"n elements"}, {"string"}, {"graph", "edge"},
   {"tree"}, {"matrix", "grid"}, {"array", "string"}}

\* \s* from position i on
RECURSIVE SkipBlank(_, _)
SkipBlank(t, i) == IF i <= Len(t) /\ t[i].k = "ws" THEN SkipBlank(t, i + 1) ELSE i

PieceIs(t, i, kind) == i <= Len(t) /\ t[i].k = kind

\* (\d+(?:\^\d+)?) at position i: the position after it
NumberEnd(t, i) ==
  IF PieceIs(t, i + 1, "pow") /\ PieceIs(t, i + 2, "num") THEN i + 3 ELSE i + 1

\* parseNumber(str)
parseNumber(str) ==
  IF \E k \in 1..Len(str) : str[k].k = "pow"
  THEN str[1].v ^ str[3].v
  ELSE str[1].v

NoMatch == [ok |-> FALSE, end |-> 0, variable |-> [name |-> "", min |-> 0, max |-> 0]]

\* One attempt of a pattern at position i. "range" is the first pattern, whose match has
\* four entries, "upper" the second, whose match has three.
MatchAt(pattern, t, i) ==
  IF pattern = "range"
  THEN LET a == SkipBlank(t, i + 1)
           b == SkipBlank(t, a + 1)
           c == SkipBlank(t, b + 1)
           d == SkipBlank(t, c + 1)
       IN IF /\ PieceIs(t, i, "num") /\ PieceIs(t, a, "op") /\ PieceIs(t, b, "id")
             /\ PieceIs(t, c, "op") /\ PieceIs(t, d, "num")
          THEN [ok |-> TRUE, end |-> NumberEnd(t, d),
                variable |-> [name |-> t[b].s, min |-> t[i].v,
                              max |-> parseNumber(SubSeq(t, d, NumberEnd(t, d) - 1))]]
          ELSE NoMatch
  ELSE LET a == SkipBlank(t, i + 1)
           b == SkipBlank(t, a + 1)
       IN IF PieceIs(t, i, "id") /\ PieceIs(t, a, "op") /\ PieceIs(t, b, "num")
          THEN [ok |-> TRUE, end |-> NumberEnd(t, b),
                variable |-> [name |-> t[i].s, min |-> 1,
                              max |-> parseNumber(SubSeq(t, b, NumberEnd(t, b) - 1))]]
          ELSE NoMatch

\* while ((match = pattern.exec(constraintsText)) !== null) { variables.push(...) }
RECURSIVE ExecAll(_, _, _)
ExecAll(pattern, t, i) ==
  IF i > Len(t) THEN <<>>
  ELSE IF MatchAt(pattern, t, i).ok
       THEN <<MatchAt(pattern, t, i).variable>> \o ExecAll(pattern, t, MatchAt(pattern, t, i).end)
       ELSE ExecAll(pattern, t, i + 1)

DefaultVariableWide == [name |-> "n", min |-> 1, max |-> 1000]

DefaultVariable == [name |-> "n", min |-> 1, max |-> 100]

structuralHintsOf(inputFormat) ==
  (IF inputFormat \cap {"array", "n integers", "n elements"} # {}
   THEN <<"array-based">> ELSE <<>>)
    \o (IF "string" \in inputFormat THEN <<"string-based">> ELSE <<>>)
    \o (IF inputFormat \cap {"graph", "edge"} # {} THEN <<"graph-based">> ELSE <<>>)
    \o (IF "tree" \in inputFormat THEN <<"tree-based">> ELSE <<>>)
    \o (IF inputFormat \cap {"matrix", "grid"} # {} THEN <<"matrix-based">> ELSE <<>>)

\* parseConstraints(inputFormat, constraintsText)
parseConstraints(inputFormat, constraintsText) ==
  LET found == ExecAll("range", constraintsText, 1) \o ExecAll("upper", constraintsText, 1)
  IN [variables |-> IF found = <<>> THEN <<DefaultVariable>> ELSE found,
      structuralHints |-> structuralHintsOf(inputFormat)]

\* varName.toLowerCase(), for the names of VariableNames and of the texts above
NameLower(name) == IF name = "N" THEN "n" ELSE name

IncludesHint(parsed, hint) ==
  \E k \in 1..Len(parsed.structuralHints) : parsed.structuralHints[k] = hint

generateInputForValueBare(varName, value, parsed) == Text(<< <<value>> >>, TRUE)

\* generateInputForValue(varName, value, constraints)
generateInputForValue(varName, value, parsed) ==
  IF IncludesHint(parsed, "array-based") /\ NameLower(varName) = "n"
  THEN Text(<< <<value>>, [i \in 1..value |-> i] >>, TRUE)
  ELSE Text(<< <<value>> >>, TRUE)

BoundaryCase(v, value, priority, parsed) ==
  [input |-> generateInputForValue(v.name, value, parsed), name |-> v.name,
   value |-> value, category |-> "boundary", priority |-> priority]

\* The generator of the boundary strategy
RECURSIVE boundaryGenerator(_, _)
boundaryGenerator(variables, parsed) ==
  IF variables = <<>> THEN <<>>
  ELSE LET v == Head(variables)
       IN (IF NameLower(v.name) \in {"n", "size"}
           THEN <<BoundaryCase(v, v.min, 10, parsed),
                  BoundaryCase(v, Min2(v.max, 20), 10, parsed)>>
                  \o (IF v.max - v.min > 2
                      THEN <<BoundaryCase(v, v.min + 1, 8, parsed)>> ELSE <<>>)
           ELSE <<>>)
            \o boundaryGenerator(Tail(variables), parsed)

InitConstraints ==
  /\ pipeline = "enhanced"
  /\ useMock = FALSE
  /\ program = [fn |-> "sum", bad |-> "none", how |-> "exit1"]
  /\ dockerUp = TRUE
  /\ timeout = DockerTimeout
  /\ PipelineIdle
  /\ callback = {}
  /\ recovery = NoCall
  /\ engine = NoEngine
  /\ websocket = NoServer
  /\ \E inputFormat \in InputFormats, constraintsText \in ConstraintTexts :
       constraints = [NoParse EXCEPT !.pc = "called", !.format = inputFormat,
                                     !.text = constraintsText]

\* const constraints = parseConstraints(inputFormat, constraintsText)
ConstraintsParse ==
  /\ constraints.pc = "called"
  /\ constraints' =
       [constraints EXCEPT
          !.pc = "parsed",
          !.variables = parseConstraints(constraints.format, constraints.text).variables,
          !.structuralHints =
             parseConstraints(constraints.format, constraints.text).structuralHints]
  /\ UNCHANGED <<reqVars, jobId, cbVars, pc, stageLog, testCases, adaptiveTests, loopVars,
                 topHypotheses, inference, fallbackUsed, llmVars, thrown, result, sbVars,
                 callback, counters, recovery, engine, websocket>>

\* strategy.generator(constraints), for the boundary strategy
ConstraintsBoundary ==
  /\ constraints.pc = "parsed"
  /\ constraints' =
       [constraints EXCEPT
          !.pc = "generated",
          !.cases = boundaryGenerator(constraints.variables, constraints)]
  /\ UNCHANGED <<reqVars, jobId, cbVars, pc, stageLog, testCases, adaptiveTests, loopVars,
                 topHypotheses, inference, fallbackUsed, llmVars, thrown, result, sbVars,
                 callback, counters, recovery, engine, websocket>>

NextConstraints ==
  \/ ConstraintsParse
  \/ ConstraintsBoundary

SpecConstraints == InitConstraints /\ [][NextConstraints]_vars

\* C22: with the array-based hint, every case the boundary strategy generates for a
\* variable named n is the value followed by a line of exactly that many elements,
\* never the value alone
C22_BoundaryCasesCarryTheirArray ==
  (constraints.pc = "generated" /\ IncludesHint(constraints, "array-based")) =>
    \A k \in 1..Len(constraints.cases) :
      NameLower(constraints.cases[k].name) = "n" =>
        /\ Len(constraints.cases[k].input.lines) = 2
        /\ constraints.cases[k].input.lines[1] = <<constraints.cases[k].value>>
        /\ Len(constraints.cases[k].input.lines[2]) = constraints.cases[k].value

C22_Witness ==
  /\ constraints.pc = "generated"
  /\ IncludesHint(constraints, "array-based")
  /\ \E k \in 1..Len(constraints.cases) :
       /\ constraints.cases[k].name = "n"
       /\ constraints.cases[k].value = 20
       /\ Len(constraints.cases[k].input.lines[2]) = 20

PatternMatchesSomewhere(t) ==
  \E i \in 1..Len(t) : MatchAt("range", t, i).ok \/ MatchAt("upper", t, i).ok

\* C23: for every format and constraints text parseConstraints returns at least one
\* variable, and when neither bound pattern matches anywhere in the text the result is
\* exactly the one default variable n with min 1 and max 100
C23_ParseDegradesToDefault ==
  constraints.pc \in {"parsed", "generated"} =>
    /\ Len(constraints.variables) >= 1
    /\ ~PatternMatchesSomewhere(constraints.text) =>
         constraints.variables = <<[name |-> "n", min |-> 1, max |-> 100]>>

C23_Witness ==
  /\ constraints.pc = "parsed"
  /\ constraints.text = <<Other("?"), Other("(")>>
  /\ constraints.variables = <<[name |-> "n", min |-> 1, max |-> 100]>>

\* The value an upper bound of UpperBounds states
StatedBound(hi) == IF Len(hi) = 3 THEN hi[1].v ^ hi[3].v ELSE hi[1].v

\* C30: for a text stating one range lo REL name REL hi, with REL written U+2264 or
\* ASCII <= and hi possibly as base^exponent, parseConstraints returns exactly one
\* variable, named name, with min lo and max hi
C30_OneRangeOneVariable ==
  constraints.pc \in {"parsed", "generated"} =>
    \A lo \in {0, 1}, rel \in {<<Sign("U+2264")>>, <<Sign("<"), Sign("=")>>},
       name \in VariableNames, hi \in UpperBounds, spaced \in BOOLEAN :
      constraints.text = RangeText(lo, rel, name, hi, spaced) =>
        constraints.variables = <<[name |-> name, min |-> lo, max |-> StatedBound(hi)]>>

\* C24: whenever runEnhancedPipeline ends in error, the error text of the returned result
\* is the fixed message of the classified kind, never the raw exception message, and
\* the result carries the observations collected before the failure
C24_ErrorResultIsFixedTextWithObservations ==
  (pipeline = "enhanced" /\ pc = "done" /\ ~result.success) =>
    /\ result.error.fixed
    /\ result.observations = observations

\* --------------------------------------------------------- classifyError alone
\* A message as thrown, by the keywords it contains in the case they are written in
MessagePieces ==
  {"timeout", "LLM", "llm", "Gemini", "Rate limit", "429", "quota", "Invalid", "JSON",
   "response", "Docker", "memory", "OOM", "network", "connection", "execution",
   "exit code", "parse"}

MaxKeywords == 3

ErrorMessages == {msg \in SUBSET MessagePieces : Cardinality(msg) <= MaxKeywords}

\* error.message.toLowerCase()
MessageLower(msg) ==
  {CASE piece = "LLM" -> "llm"
     [] piece = "Gemini" -> "gemini"
     [] piece = "Rate limit" -> "rate limit"
     [] piece = "Invalid" -> "invalid"
     [] piece = "JSON" -> "json"
     [] piece = "Docker" -> "docker"
     [] piece = "OOM" -> "oom"
     [] OTHER -> piece : piece \in msg}

InitClassify ==
  /\ pipeline = "enhanced"
  /\ useMock = FALSE
  /\ program = [fn |-> "sum", bad |-> "none", how |-> "exit1"]
  /\ dockerUp = TRUE
  /\ timeout = DockerTimeout
  /\ PipelineIdle
  /\ callback = {}
  /\ engine = NoEngine
  /\ constraints = NoParse
  /\ websocket = NoServer
  /\ \E msg \in ErrorMessages :
       recovery = [NoCall EXCEPT !.pc = "classify", !.lastError = msg]

\* classifyError(error)
Classify ==
  /\ recovery.pc = "classify"
  /\ recovery' = [recovery EXCEPT
                    !.pc = "classified",
                    !.errorType = classifyError(MessageLower(recovery.lastError))]
  /\ UNCHANGED <<reqVars, jobId, cbVars, pc, stageLog, testCases, adaptiveTests, loopVars,
                 topHypotheses, inference, fallbackUsed, llmVars, thrown, result, sbVars,
                 callback, counters, engine, constraints, websocket>>

NextClassify == Classify

SpecClassify == InitClassify /\ [][NextClassify]_vars

\* The message holds the keyword, in any case
Says(keyword) == \E piece \in recovery.lastError : MessageLower({piece}) = {keyword}

\* C25: classifyError returns exactly one of the nine kinds, chosen by case-insensitive
\* keywords in the precedence LLM timeout, rate limit, invalid response, docker timeout,
\* memory, network, execution, parse, and unknown when no keyword matches
C25_ClassifiedByPrecedence ==
  recovery.pc = "classified" =>
    LET llmTimeout == Says("timeout") /\ (Says("llm") \/ Says("gemini"))
        rateLimit == Says("rate limit") \/ Says("429") \/ Says("quota")
        invalid == Says("invalid") /\ (Says("json") \/ Says("response"))
        dockerTimeout == Says("timeout") /\ Says("docker")
        memory == Says("memory") \/ Says("oom")
        network == Says("network") \/ Says("connection")
        execution == Says("execution") \/ Says("exit code")
        parse == Says("parse")
        kinds == << <<llmTimeout, "llm_timeout">>, <<rateLimit, "llm_rate_limit">>,
                    <<invalid, "llm_invalid_response">>, <<dockerTimeout, "docker_timeout">>,
                    <<memory, "docker_memory">>, <<network, "docker_network">>,
                    <<execution, "execution_failed">>, <<parse, "parse_error">>,
                    <<TRUE, "unknown">> >>
    IN /\ \E k \in 1..9 :
            /\ recovery.errorType = kinds[k][2]
            /\ kinds[k][1]
            /\ \A j \in 1..(k - 1) : ~kinds[j][1]
       /\ recovery.lastError = {"LLM", "timeout"} => recovery.errorType = "llm_timeout"
       /\ recovery.lastError = {"Rate limit", "429"} => recovery.errorType = "llm_rate_limit"
       /\ recovery.lastError = {"Docker", "timeout"} => recovery.errorType = "docker_timeout"
       /\ recovery.lastError = {"memory", "OOM"} => recovery.errorType = "docker_memory"

C25_Witness ==
  /\ recovery.pc = "classified"
  /\ recovery.lastError = {"Docker", "timeout", "Gemini"}
  /\ recovery.errorType = "llm_timeout"

\* ------------------------------------------------------------ websocketService
MaxClients == 2

MaxMessages == 2

MaxBroadcasts == 1

SubscribedJobs == {"J1", "J2"}

\* What a client may send: subscribe with or without a jobId, unsubscribe, ping, a type
\* the service does not know, and text that is not JSON
ClientMessages ==
  [type : {"subscribe"}, jobId : SubscribedJobs \cup {""}]
    \cup [type : {"unsubscribe", "ping", "other", "not json"}, jobId : {""}]

\* clients.set(clientId, { ws, jobId: null }), with the history of the messages handled
NewClient == [readyState |-> "OPEN", inMap |-> TRUE, jobId |-> "null", handled |-> <<>>]

\* handleMessage(clientId, message): the jobId of the client afterwards
handleMessageKeepingJob(client, message) == client.jobId

handleMessage(client, message) ==
  IF message.type = "subscribe" /\ message.jobId # "" THEN message.jobId
  ELSE IF message.type = "unsubscribe" THEN "null"
  ELSE client.jobId

\* broadcastJobUpdate(jobId, update): the clients client.ws.send(message) is called for
broadcastJobUpdate(clients, job) ==
  {c \in 1..Len(clients) :
     clients[c].inMap /\ clients[c].jobId = job /\ clients[c].readyState = "OPEN"}

InitWebSocket ==
  /\ pipeline = "enhanced"
  /\ useMock = FALSE
  /\ program = [fn |-> "sum", bad |-> "none", how |-> "exit1"]
  /\ dockerUp = TRUE
  /\ timeout = DockerTimeout
  /\ PipelineIdle
  /\ callback = {}
  /\ recovery = NoCall
  /\ engine = NoEngine
  /\ constraints = NoParse
  /\ websocket = NoServer

\* wss.on('connection', ...)
WsConnection ==
  /\ Len(websocket.clients) < MaxClients
  /\ websocket' = [websocket EXCEPT !.clients = Append(@, NewClient)]
  /\ UNCHANGED <<reqVars, jobId, cbVars, pc, stageLog, testCases, adaptiveTests, loopVars,
                 topHypotheses, inference, fallbackUsed, llmVars, thrown, result, sbVars,
                 callback, counters, recovery, engine, constraints>>

\* ws.on('message', ...): JSON.parse, then handleMessage inside the try
WsMessage(c, message) ==
  /\ c \in 1..Len(websocket.clients)
  /\ websocket.clients[c].readyState = "OPEN"
  /\ Len(websocket.clients[c].handled) < MaxMessages
  /\ websocket' =
       [websocket EXCEPT
          !.clients[c].handled = Append(@, message),
          !.clients[c].jobId =
             IF message.type = "not json" \/ ~websocket.clients[c].inMap THEN @
             ELSE handleMessage(websocket.clients[c], message)]
  /\ UNCHANGED <<reqVars, jobId, cbVars, pc, stageLog, testCases, adaptiveTests, loopVars,
                 topHypotheses, inference, fallbackUsed, llmVars, thrown, result, sbVars,
                 callback, counters, recovery, engine, constraints>>

\* The socket starts closing (a close frame arrived or the connection broke): readyState
\* leaves OPEN before the 'close' event is emitted
WsClosing(c) ==
  /\ c \in 1..Len(websocket.clients)
  /\ websocket.clients[c].readyState = "OPEN"
  /\ websocket' = [websocket EXCEPT !.clients[c].readyState = "CLOSING"]
  /\ UNCHANGED <<reqVars, jobId, cbVars, pc, stageLog, testCases, adaptiveTests, loopVars,
                 topHypotheses, inference, fallbackUsed, llmVars, thrown, result, sbVars,
                 callback, counters, recovery, engine, constraints>>

\* ws.on('close', ...): clients.delete(clientId)
WsClose(c) ==
  /\ c \in 1..Len(websocket.clients)
  /\ websocket.clients[c].readyState = "CLOSING"
  /\ websocket' = [websocket EXCEPT !.clients[c].readyState = "CLOSED",
                                    !.clients[c].inMap = FALSE]
  /\ UNCHANGED <<reqVars, jobId, cbVars, pc, stageLog, testCases, adaptiveTests, loopVars,
                 topHypotheses, inference, fallbackUsed, llmVars, thrown, result, sbVars,
                 callback, counters, recovery, engine, constraints>>

\* broadcastJobUpdate(job, update)
WsBroadcast(job) ==
  /\ Len(websocket.broadcasts) < MaxBroadcasts
  /\ websocket' =
       [websocket EXCEPT
          !.broadcasts = Append(@, [jobId |-> job,
                                    to |-> broadcastJobUpdate(websocket.clients, job)])]
  /\ UNCHANGED <<reqVars, jobId, cbVars, pc, stageLog, testCases, adaptiveTests, loopVars,
                 topHypotheses, inference, fallbackUsed, llmVars, thrown, result, sbVars,
                 callback, counters, recovery, engine, constraints>>

NextWebSocket ==
  \/ WsConnection
  \/ \E c \in 1..MaxClients, message \in ClientMessages : WsMessage(c, message)
  \/ \E c \in 1..MaxClients : WsClosing(c)
  \/ \E c \in 1..MaxClients : WsClose(c)
  \/ \E job \in SubscribedJobs : WsBroadcast(job)

SpecWebSocket == InitWebSocket /\ [][NextWebSocket]_vars

\* The job the messages a client has sent so far leave it subscribed to: that of its
\* last subscribe naming a job, unless an unsubscribe came after it
RECURSIVE CurrentSubscription(_)
CurrentSubscription(handled) ==
  IF handled = <<>> THEN "null"
  ELSE LET last == handled[Len(handled)]
       IN IF last.type = "subscribe" /\ last.jobId \in SubscribedJobs THEN last.jobId
          ELSE IF last.type = "unsubscribe" THEN "null"
          ELSE CurrentSubscription(SubSeq(handled, 1, Len(handled) - 1))

\* C26: under every interleaving, a broadcast for job J is sent to exactly the clients
\* that are connected with an open socket and whose current subscription is J
C26_BroadcastReachesExactlySubscribers ==
  [][Len(websocket'.broadcasts) > Len(websocket.broadcasts) =>
       LET sent == websocket'.broadcasts[Len(websocket'.broadcasts)]
       IN sent.to = {c \in 1..Len(websocket.clients) :
                       /\ websocket.clients[c].readyState = "OPEN"
                       /\ CurrentSubscription(websocket.clients[c].handled) = sent.jobId}]_vars

\* A broadcast for J1 reached the first client and not the second, which had subscribed
\* to J1 and then to J2
C26_Witness ==
  /\ Len(websocket.clients) = 2
  /\ websocket.clients[2].handled = <<[type |-> "subscribe", jobId |-> "J1"],
                                      [type |-> "subscribe", jobId |-> "J2"]>>
  /\ websocket.broadcasts = <<[jobId |-> "J1", to |-> {1}]>>

\* ------------------------------------------- a callback registered for the run
\* What a registered callback may do: return on every event, throw on the complete event,
\* or throw on the complete and on the error event
CallbackBehaviours == {{}, {"complete"}, {"complete", "error"}}

\* onProgress(jobId, callback) for the id of the run itself, which the run logs and sends
\* with every update from its first statement on
OnProgressOfRun(behaviour) ==
  /\ pc \notin {"idle", "done"}
  /\ jobId \notin progressCallbacks
  /\ callback = {}
  /\ progressCallbacks' = progressCallbacks \cup {jobId}
  /\ callback' = behaviour
  /\ UNCHANGED <<reqVars, recovery, engine, constraints, websocket, loopVars, llmVars,
                 sbVars, jobId, delivered, pc, stageLog, testCases, adaptiveTests,
                 topHypotheses, inference, fallbackUsed, thrown, result, counters>>

\* emitProgress(jobId, { stage: 'complete', ... }) inside the try: callback(progress)
\* throws, and control passes to the catch block
CompleteCallbackThrows ==
  /\ pc = "complete"
  /\ CallbackThrows("complete")
  /\ stageLog' = IF pipeline = "enhanced"
                 THEN emitProgress(sendStageUpdate(stageLog, "complete"), "complete")
                 ELSE emitProgress(stageLog, "complete")
  /\ delivered' = Deliver("complete")
  /\ thrown' = ErrCallback
  /\ pc' = "catch"
  /\ UNCHANGED <<reqVars, unitVars, loopVars, llmVars, sbVars, jobId, progressCallbacks,
                 testCases, adaptiveTests, topHypotheses, inference, fallbackUsed, result,
                 counters>>

\* emitProgress(jobId, { stage: 'error', ... }) inside the catch block: callback(progress)
\* throws, nothing catches it and the promise of the run rejects
CatchCallbackThrows ==
  /\ pc = "catch"
  /\ CallbackThrows("error")
  /\ stageLog' = IF pipeline = "enhanced"
                 THEN emitProgress(Append(stageLog, Stage("ws", "error")), "error")
                 ELSE emitProgress(stageLog, "error")
  /\ delivered' = Deliver("error")
  /\ result' = Rejected
  /\ counters' = Bump("catch")
  /\ pc' = "done"
  /\ UNCHANGED <<reqVars, unitVars, loopVars, llmVars, sbVars, jobId, progressCallbacks,
                 testCases, adaptiveTests, topHypotheses, inference, fallbackUsed, thrown>>

\* A run of runEnhancedPipeline with request.useMock
InitProgress == Init /\ pipeline = "enhanced" /\ useMock

NextProgress ==
  \/ \E id \in JobIds : OnProgress(id)
  \/ \E id \in JobIds : OffProgress(id)
  \/ \E behaviour \in CallbackBehaviours : OnProgressOfRun(behaviour)
  \/ StartRun
  \/ GenerateTests
  \/ ExecuteTest
  \/ AfterInitialBatch
  \/ ValidateHypotheses
  \/ OpenInference
  \/ MockReasoning
  \/ VerifyResult
  \/ Complete
  \/ CompleteCallbackThrows
  \/ Catch
  \/ CatchCallbackThrows

SpecProgress == InitProgress /\ [][NextProgress]_vars

EmittedProgress(stage) ==
  \E i \in 1..Len(stageLog) : stageLog[i] = Stage("progress", stage)

\* C27: whatever callback is registered for the run, removed mid-run or throwing, once
\* the complete event has been emitted no error event is emitted and the run returns
\* success = true
C27_ProgressIsFireAndForget ==
  EmittedProgress("complete") =>
    /\ ~EmittedProgress("error")
    /\ pc = "done"
    /\ result.success

\* ------------------------------------------------ detectPatterns, on its own
MaxPatternObs == 5

\* Observations of the input '3\n1 2 3\n': the output is the sum 6, the count 3, the
\* number 7, or empty
PatternPool ==
  {Observation(Text(<< <<3>>, <<1, 2, 3>> >>, TRUE), Out(<<Num(6)>>, 0)),
   Observation(Text(<< <<3>>, <<1, 2, 3>> >>, TRUE), Out(<<Num(3)>>, 0)),
   Observation(Text(<< <<3>>, <<1, 2, 3>> >>, TRUE), Out(<<Num(7)>>, 0)),
   Observation(Text(<< <<3>>, <<1, 2, 3>> >>, TRUE), EmptyOut)}

\* parseFloat(obs.output): the leading number of the text, NaN when there is none
parseFloat(output) ==
  IF output.nums = <<>> THEN [nan |-> TRUE, value |-> Num(0)]
  ELSE [nan |-> FALSE, value |-> output.nums[1]]

RECURSIVE Product(_)
Product(numbers) == IF numbers = <<>> THEN 1 ELSE Head(numbers) * Product(Tail(numbers))

\* observations.map(...).filter((p) => !isNaN(p.output))
sizeOutputPairs(obs) ==
  LET pair(o) == [size |-> Num(Len(extractNumbers(o.input))),
                  inputSum |-> SumNum(extractNumbers(o.input)),
                  inputProduct |-> Num(Product(extractNumbers(o.input))),
                  output |-> parseFloat(o.output)]
  IN SelectSeq([k \in 1..Len(obs) |-> pair(obs[k])], LAMBDA p : ~p.output.nan)

\* count > length * 0.8
MoreThan80Percent(count, length) == 5 * count > 4 * length

AtLeast80Percent(count, length) == 5 * count >= 4 * length

NoPattern == <<>>

LinearAggregation(confidence, suggestedAlgorithm) ==
  << [type |-> "linear_aggregation", confidence |-> confidence,
      suggestedAlgorithm |-> suggestedAlgorithm] >>

\* detectLinearAggregation(observations): the pattern, or none
detectLinearAggregation(obs) ==
  LET pairs == sizeOutputPairs(obs)
      sumMatches == Len(SelectSeq(pairs, LAMBDA p : p.inputSum = p.output.value))
      productMatches == Len(SelectSeq(pairs, LAMBDA p : p.inputProduct = p.output.value))
      countMatches == Len(SelectSeq(pairs, LAMBDA p : p.size = p.output.value))
  IN IF MoreThan80Percent(sumMatches, Len(pairs))
     THEN LinearAggregation(<<95, 100>>, "Array Sum - Linear scan")
     ELSE IF MoreThan80Percent(productMatches, Len(pairs))
     THEN LinearAggregation(<<9, 10>>, "Array Product - Linear scan")
     ELSE IF MoreThan80Percent(countMatches, Len(pairs))
     THEN LinearAggregation(<<85, 100>>, "Element Count")
     ELSE NoPattern

InitPatterns ==
  /\ pipeline = "enhanced"
  /\ useMock = FALSE
  /\ program = [fn |-> "sum", bad |-> "none", how |-> "exit1"]
  /\ dockerUp = TRUE
  /\ timeout = DockerTimeout
  /\ PipelineIdle
  /\ callback = {}
  /\ recovery = NoCall
  /\ constraints = NoParse
  /\ websocket = NoServer
  /\ \E obs \in SeqsUpTo(PatternPool, MaxPatternObs) :
       engine = [NoEngine EXCEPT !.pc = "detect", !.observations = obs]

\* detectPatterns(observations): the patterns of type linear_aggregation
DetectPatterns ==
  /\ engine.pc = "detect"
  /\ engine' = [engine EXCEPT !.pc = "detected",
                              !.patterns = detectLinearAggregation(engine.observations)]
  /\ UNCHANGED <<reqVars, jobId, cbVars, pc, stageLog, testCases, adaptiveTests, loopVars,
                 topHypotheses, inference, fallbackUsed, llmVars, thrown, result, sbVars,
                 callback, counters, recovery, constraints, websocket>>

NextPatterns == DetectPatterns

SpecPatterns == InitPatterns /\ [][NextPatterns]_vars

\* The observations whose output is the sum of the input's numbers
SumObservations ==
  {k \in 1..Len(engine.observations) :
     engine.observations[k].output
       = Out(<<SumNum(InputNumbers(engine.observations[k].input))>>, 0)}

ArraySumReported ==
  \E k \in 1..Len(engine.patterns) :
    /\ engine.patterns[k].type = "linear_aggregation"
    /\ engine.patterns[k].suggestedAlgorithm = "Array Sum - Linear scan"

\* C28: for a non-empty observation list, detectPatterns reports the linear_aggregation
\* pattern suggesting Array Sum when at least 80% of the observations have the sum of the
\* input's numbers as output, and does not report it when fewer than 80% of all
\* observations do
C28_ArraySumAtEightyPercent ==
  (engine.pc = "detected" /\ engine.observations # <<>>) =>
    (ArraySumReported
       <=> AtLeast80Percent(Cardinality(SumObservations), Len(engine.observations)))

=============================================================================
